---------------------------- MODULE Spec2Model ----------------------------
(***************************************************************************)
(* Model of the path walker of libfyaml (src/lib/fy-walk.c):               *)
(*   - fy_walk_create: character-level splitting of a path string into a   *)
(*     tree of walk components;                                            *)
(*   - fy_walk_perform / fy_walk_perform_internal: evaluation of the       *)
(*     component tree against a document node, filling a result list;      *)
(*   - fy_walk_result_add / fy_walk_result_add_recursive: the result list; *)
(*   - the path parser: the tokenizer fy_path_fetch_tokens, the scanner    *)
(*     fy_path_scan_peek, the operator-precedence parser                   *)
(*     fy_path_parse_expression with evaluate, and the recycling pool of   *)
(*     expression nodes.                                                   *)
(* Strings are sequences of one-character strings.  Pointers are indices   *)
(* (0 is NULL): document nodes index NodeTable, walk components index the  *)
(* arena wc.comps, path expressions index the arena fypp.exprs.            *)
(***************************************************************************)
EXTENDS Integers, Sequences, FiniteSets, TLC

VARIABLES path, wc, results, prev, op, start, leaf, ret, failed, performed,
          fypp, scanned

vars == <<path, wc, results, prev, op, start, leaf, ret, failed, performed,
          fypp, scanned>>

(***************************************************************************)
(* Bounds of the model.                                                    *)
(***************************************************************************)
\* longest enumerated path, counted in lexical pieces
MaxPieces == 3
\* nodes a caller may put in a result list by hand before walking
MaxAdds == 2
\* the allocation (counted within one call) that may be made to fail
MaxFailAt == 2

\* the number of lexical pieces in a parsed expression
MaxParsePieces == 3
\* the number of tokens a caller of the scanner asks for
MaxScans == 6

(***************************************************************************)
(* Generic helpers.                                                        *)
(***************************************************************************)
Range(s) == {s[i] : i \in 1..Len(s)}

IsPrefix(s, t) == Len(s) <= Len(t) /\ SubSeq(t, 1, Len(s)) = s

NoDup(s) == \A i, j \in 1..Len(s) : i # j => s[i] # s[j]

Min(a, b) == IF a < b THEN a ELSE b

RECURSIVE Concat(_)
Concat(ss) == IF ss = <<>> THEN <<>> ELSE Head(ss) \o Concat(Tail(ss))

\* bitwise or of two naturals
RECURSIVE BitOr(_, _)
BitOr(x, y) ==
  IF x = 0 THEN y
  ELSE IF y = 0 THEN x
  ELSE (IF x % 2 = 1 \/ y % 2 = 1 THEN 1 ELSE 0) + 2 * BitOr(x \div 2, y \div 2)

(***************************************************************************)
(* The documents walked.  Document 1 is the scenario document              *)
(*   {a: {b: 1, c: 2}, list: [10, 20, 30, 40], d: &anc {x: 9}}             *)
(* and document 2 is [{a: 5}, []].  Nodes are numbered in pre-order.       *)
(***************************************************************************)
NodeTable ==
  << [kind |-> "mapping",  parent |-> 0,  doc |-> 1, items |-> <<2, 5, 10>>,
      keys |-> << <<"a">>, <<"l", "i", "s", "t">>, <<"d">> >>],
     [kind |-> "mapping",  parent |-> 1,  doc |-> 1, items |-> <<3, 4>>,
      keys |-> << <<"b">>, <<"c">> >>],
     [kind |-> "scalar",   parent |-> 2,  doc |-> 1, items |-> <<>>, keys |-> <<>>],
     [kind |-> "scalar",   parent |-> 2,  doc |-> 1, items |-> <<>>, keys |-> <<>>],
     [kind |-> "sequence", parent |-> 1,  doc |-> 1, items |-> <<6, 7, 8, 9>>, keys |-> <<>>],
     [kind |-> "scalar",   parent |-> 5,  doc |-> 1, items |-> <<>>, keys |-> <<>>],
     [kind |-> "scalar",   parent |-> 5,  doc |-> 1, items |-> <<>>, keys |-> <<>>],
     [kind |-> "scalar",   parent |-> 5,  doc |-> 1, items |-> <<>>, keys |-> <<>>],
     [kind |-> "scalar",   parent |-> 5,  doc |-> 1, items |-> <<>>, keys |-> <<>>],
     [kind |-> "mapping",  parent |-> 1,  doc |-> 1, items |-> <<11>>,
      keys |-> << <<"x">> >>],
     [kind |-> "scalar",   parent |-> 10, doc |-> 1, items |-> <<>>, keys |-> <<>>],
     [kind |-> "sequence", parent |-> 0,  doc |-> 2, items |-> <<13, 15>>, keys |-> <<>>],
     [kind |-> "mapping",  parent |-> 12, doc |-> 2, items |-> <<14>>,
      keys |-> << <<"a">> >>],
     [kind |-> "scalar",   parent |-> 13, doc |-> 2, items |-> <<>>, keys |-> <<>>],
     [kind |-> "sequence", parent |-> 12, doc |-> 2, items |-> <<>>, keys |-> <<>>] >>

Nodes == 1..Len(NodeTable)

\* fyd->root of each document
DocRoot == <<1, 12>>

\* the anchors of each document: <<document, name, node>>
AnchorTable == { <<1, <<"a", "n", "c">>, 10>> }

fy_node_is_scalar(fyn) == NodeTable[fyn].kind = "scalar"

fy_node_is_sequence(fyn) == NodeTable[fyn].kind = "sequence"

fy_node_is_mapping(fyn) == NodeTable[fyn].kind = "mapping"

fy_node_get_parent(fyn) == NodeTable[fyn].parent

fy_node_sequence_item_count(fyn) == Len(NodeTable[fyn].items)

\* a negative index counts from the end; out of range is NULL
fy_node_sequence_get_by_index(fyn, index) ==
  LET n == Len(NodeTable[fyn].items)
      i == IF index < 0 THEN index + n ELSE index
  IN IF i >= 0 /\ i < n THEN NodeTable[fyn].items[i + 1] ELSE 0

fy_node_mapping_lookup_value_by_simple_key(fyn, key) ==
  LET hits == {i \in 1..Len(NodeTable[fyn].keys) : NodeTable[fyn].keys[i] = key}
  IN IF hits = {} THEN 0 ELSE NodeTable[fyn].items[CHOOSE i \in hits : TRUE]

fy_document_lookup_anchor(fyd, name) ==
  LET hits == {a \in AnchorTable : a[1] = fyd /\ a[2] = name}
  IN IF hits = {} THEN 0 ELSE (CHOOSE a \in hits : TRUE)[3]

(***************************************************************************)
(* Character classes.                                                      *)
(***************************************************************************)
Digits == <<"0", "1", "2", "3", "4", "5", "6", "7", "8", "9">>

isdigit(c) == c \in Range(Digits)

isspace(c) == c \in {" ", "\t", "\n", "\r"}

DigitVal(c) == (CHOOSE i \in 1..Len(Digits) : Digits[i] = c) - 1

Letters == {"a", "b", "c", "d", "i", "l", "n", "s", "t", "x"}

fy_is_first_alpha(c) == c \in Letters \cup {"_"}

fy_is_alpha(c) == fy_is_first_alpha(c) \/ c = "-"

\* strchr(",/", c) for a character c that is not NUL
IsCommaOrSlash(c) == c \in {",", "/"}

\* the terminators of a simple key (the source also lists the grave accent,
\* which no path of the model contains)
SimpleKeyTerm ==
  {",", "[", "]", "{", "}", "#", "&", "*", "!", "|", "<", ">", "'", "\"",
   "%", "@", "?", ":", "/", "$"}

\* the characters that cannot start a simple key
SimpleKeyNoStart == SimpleKeyTerm \cup {"-"} \cup Range(Digits)

(***************************************************************************)
(* The get_extent functions.  Each takes the path p and the index s of the *)
(* first character to look at (e = Len(p) + 1 is one past the end) and     *)
(* returns the index after the component, s itself when the component is   *)
(* not of that kind, or ExtErr for the C return value -1.                  *)
(***************************************************************************)
ExtErr == 0 - 1

walk_container_is_startc(c) == c \in {"\"", "'", "{", "["}

walk_container_endc(c) ==
  CASE c = "\"" -> "\""
    [] c = "'"  -> "'"
    [] c = "{"  -> "}"
    [] c = "["  -> "]"

\* flow sequence or mapping: scan to the matching close, counting nesting
RECURSIVE ContainerNestScan(_, _, _, _, _)
ContainerNestScan(p, s, startc, endc, nest) ==
  IF s > Len(p) THEN ExtErr
  ELSE IF p[s] = startc THEN ContainerNestScan(p, s + 1, startc, endc, nest + 1)
  ELSE IF p[s] = endc /\ nest = 1 THEN s + 1
  ELSE IF p[s] = endc THEN ContainerNestScan(p, s + 1, startc, endc, nest - 1)
  ELSE ContainerNestScan(p, s + 1, startc, endc, nest)

\* quoted string without escapes: scan to the closing quote
RECURSIVE ContainerQuoteScan(_, _, _)
ContainerQuoteScan(p, s, endc) ==
  IF s > Len(p) THEN ExtErr
  ELSE IF p[s] = endc THEN s + 1
  ELSE ContainerQuoteScan(p, s + 1, endc)

walk_container_get_extent(p, s) ==
  IF s > Len(p) \/ ~walk_container_is_startc(p[s]) THEN s
  ELSE IF p[s] \in {"\"", "'"}
       THEN ContainerQuoteScan(p, s + 1, walk_container_endc(p[s]))
       ELSE ContainerNestScan(p, s + 1, p[s], walk_container_endc(p[s]), 1)

\* index of the first character at or after s that is not a digit
RECURSIVE SkipDigits(_, _)
SkipDigits(p, s) ==
  IF s <= Len(p) /\ isdigit(p[s]) THEN SkipDigits(p, s + 1) ELSE s

walk_numeric_slice_get_extent(p, s) ==
  LET e  == Len(p) + 1
      s1 == SkipDigits(p, s)
      s2 == SkipDigits(p, s1 + 1)
  IN IF s >= e THEN s
     ELSE IF s1 = s THEN s
     ELSE IF s1 >= e \/ p[s1] # ":" THEN s
     ELSE IF s1 + 1 >= e THEN s1 + 1
     ELSE IF s2 = s1 + 1 THEN s
     ELSE s2

walk_numeric_get_extent(p, s) ==
  LET e  == Len(p) + 1
      s0 == IF s < e /\ p[s] = "-" THEN s + 1 ELSE s
      s1 == SkipDigits(p, s0)
  IN IF s >= e THEN s
     ELSE IF s0 >= e THEN s
     ELSE IF s1 = s0 THEN s
     ELSE s1

RECURSIVE SkipSimpleKey(_, _)
SkipSimpleKey(p, s) ==
  IF s <= Len(p) /\ p[s] \notin SimpleKeyTerm THEN SkipSimpleKey(p, s + 1) ELSE s

walk_simple_key_get_extent(p, s) ==
  IF s > Len(p) THEN s
  ELSE IF p[s] \in SimpleKeyNoStart THEN s
  ELSE SkipSimpleKey(p, s + 1)

RECURSIVE SkipAlpha(_, _)
SkipAlpha(p, s) ==
  IF s <= Len(p) /\ fy_is_alpha(p[s]) THEN SkipAlpha(p, s + 1) ELSE s

walk_alias_get_extent(p, s) ==
  LET e == Len(p) + 1
  IN IF s >= e THEN s
     ELSE IF e - s < 2 \/ p[s] # "*" \/ ~fy_is_first_alpha(p[s + 1]) THEN s
     ELSE SkipAlpha(p, s + 1)

walk_parent_get_extent(p, s) ==
  LET e == Len(p) + 1
  IN IF e - s < 2 \/ p[s] # "." \/ p[s + 1] # "." THEN s
     ELSE IF s + 2 < e /\ ~IsCommaOrSlash(p[s + 2]) THEN ExtErr
     ELSE s + 2

walk_this_get_extent(p, s) ==
  LET e == Len(p) + 1
  IN IF e - s < 1 \/ p[s] # "." THEN s
     ELSE IF s + 1 < e /\ ~IsCommaOrSlash(p[s + 1]) THEN ExtErr
     ELSE s + 1

walk_root_get_extent(p, s) ==
  LET e == Len(p) + 1
  IN IF e - s < 1 \/ p[s] # "^" THEN s
     ELSE IF s + 1 < e /\ ~IsCommaOrSlash(p[s + 1]) THEN ExtErr
     ELSE s + 1

walk_every_child_r_get_extent(p, s) ==
  LET e == Len(p) + 1
  IN IF e - s < 2 \/ p[s] # "*" \/ p[s + 1] # "*" THEN s ELSE s + 2

walk_every_child_get_extent(p, s) ==
  LET e == Len(p) + 1
  IN IF e - s < 1 \/ p[s] # "*" THEN s
     ELSE IF s + 1 < e /\ ~IsCommaOrSlash(p[s + 1]) THEN ExtErr
     ELSE s + 1

\* the table of component kinds, in order of precedence
split_descs ==
  << [name |-> "root",   ctype |-> "root",   sibling_mark |-> FALSE, scalar_mark |-> FALSE],
     [name |-> "parent", ctype |-> "parent", sibling_mark |-> FALSE, scalar_mark |-> FALSE],
     [name |-> "this",   ctype |-> "this",   sibling_mark |-> FALSE, scalar_mark |-> FALSE],
     [name |-> "numeric-slice", ctype |-> "seq_slice",
      sibling_mark |-> TRUE, scalar_mark |-> TRUE],
     [name |-> "numeric", ctype |-> "seq_index",
      sibling_mark |-> TRUE, scalar_mark |-> TRUE],
     [name |-> "container", ctype |-> "map_key",
      sibling_mark |-> TRUE, scalar_mark |-> TRUE],
     [name |-> "simple-key", ctype |-> "simple_map_key",
      sibling_mark |-> TRUE, scalar_mark |-> TRUE],
     [name |-> "alias", ctype |-> "start_alias",
      sibling_mark |-> FALSE, scalar_mark |-> TRUE],
     [name |-> "every-child-recursive", ctype |-> "every_child_r",
      sibling_mark |-> FALSE, scalar_mark |-> TRUE],
     [name |-> "every-child", ctype |-> "every_child",
      sibling_mark |-> FALSE, scalar_mark |-> TRUE] >>

get_extent(i, p, s) ==
  CASE i = 1  -> walk_root_get_extent(p, s)
    [] i = 2  -> walk_parent_get_extent(p, s)
    [] i = 3  -> walk_this_get_extent(p, s)
    [] i = 4  -> walk_numeric_slice_get_extent(p, s)
    [] i = 5  -> walk_numeric_get_extent(p, s)
    [] i = 6  -> walk_container_get_extent(p, s)
    [] i = 7  -> walk_simple_key_get_extent(p, s)
    [] i = 8  -> walk_alias_get_extent(p, s)
    [] i = 9  -> walk_every_child_r_get_extent(p, s)
    [] i = 10 -> walk_every_child_get_extent(p, s)

\* the first kind whose get_extent advances; sd = 0 is the NULL return.
\* SplitDescPick decides on the extent t that kind i returned
RECURSIVE SplitDescFrom(_, _, _)
SplitDescPick(i, p, s, t) ==
  IF t = ExtErr THEN [sd |-> 0, next |-> s]
  ELSE IF t > s THEN [sd |-> i, next |-> t]
  ELSE SplitDescFrom(i + 1, p, s)

SplitDescFrom(i, p, s) ==
  IF i > Len(split_descs) THEN [sd |-> 0, next |-> s]
  ELSE SplitDescPick(i, p, s, get_extent(i, p, s))

walk_get_split_desc(p, s) == SplitDescFrom(1, p, s)

(***************************************************************************)
(* Walk components and fy_walk_create.                                     *)
(***************************************************************************)
\* the NULL context.  Beside the fields of the structure a context records
\* how the call that made it ended: destroyed is what err_out handed to
\* fy_walk_destroy ("none" when the call did not fail, "NULL", or a context
\* "uninitialized" or "initialized"), aborted that the program stopped
NullCtx ==
  [valid |-> FALSE, path |-> <<>>, comps |-> <<>>, components |-> <<>>,
   destroyed |-> "none", aborted |-> FALSE]

fy_walk_component_type_is_terminating(type) ==
  type \in {"every_child_r", "every_leaf", "assert_collection",
            "assert_scalar", "assert_sequence", "assert_mapping"}

fy_walk_component_type_is_multi(type) ==
  type \in {"every_child", "every_child_r", "every_leaf", "seq_slice",
            "multi", "chain"}

\* value of the digit string p[s .. t-1]
RECURSIVE DecVal(_, _, _)
DecVal(p, s, t) ==
  IF t <= s THEN 0 ELSE DecVal(p, s, t - 1) * 10 + DigitVal(p[t - 1])

\* strtol(buf + (i - 1), &end, 10): optional sign, then digits; end is the
\* index of the first character not consumed (no digits: nothing consumed)
strtol(buf, i) ==
  LET neg == i <= Len(buf) /\ buf[i] = "-"
      d0  == IF neg THEN i + 1 ELSE i
      d1  == SkipDigits(buf, d0)
      v   == DecVal(buf, d0, d1)
  IN IF d1 = d0 THEN [val |-> 0, end |-> i]
     ELSE [val |-> IF neg THEN 0 - v ELSE v, end |-> d1]

\* the fields of a slice whose start strtol has read as r1
SeqSlicePayload(buf, r1) ==
  LET none == [ok |-> TRUE, index |-> 0, start_index |-> 0, end_index |-> 0]
      r2 == strtol(buf, r1.end + 1)
  IN IF r1.end > Len(buf) \/ buf[r1.end] # ":" THEN [none EXCEPT !.ok = FALSE]
     ELSE IF r1.val < 0 THEN [none EXCEPT !.ok = FALSE]
     ELSE IF r1.end + 1 <= Len(buf)
          THEN IF r2.end <= Len(buf) THEN [none EXCEPT !.ok = FALSE]
               ELSE IF r2.val < 0 \/ r1.val >= r2.val
                    THEN [none EXCEPT !.ok = FALSE]
               ELSE [none EXCEPT !.start_index = r1.val, !.end_index = r2.val]
          ELSE [none EXCEPT !.start_index = r1.val, !.end_index = 0 - 1]

\* the fields of an index that strtol has read as r
SeqIndexPayload(buf, r) ==
  [ok |-> r.end > Len(buf), index |-> IF r.end > Len(buf) THEN r.val ELSE 0,
   start_index |-> 0, end_index |-> 0]

\* the component fields set by the switch of fy_walk_add_component;
\* ok is FALSE on its err_out
ComponentPayload(type, buf) ==
  CASE type = "seq_index" -> SeqIndexPayload(buf, strtol(buf, 1))
    [] type = "seq_slice" -> SeqSlicePayload(buf, strtol(buf, 1))
    [] OTHER -> [ok |-> TRUE, index |-> 0, start_index |-> 0, end_index |-> 0]

\* the component with payload pl linked at the tail of the parent's children,
\* or of the context's component list when parent is 0
AddComponentLink(W, parent, type, buf, pl) ==
  LET id  == Len(W.comps) + 1
      fwc == [type |-> type, parent |-> parent, children |-> <<>>, comp |-> buf,
              index |-> pl.index, start_index |-> pl.start_index,
              end_index |-> pl.end_index]
  IN IF ~pl.ok THEN [ok |-> FALSE, W |-> W, id |-> 0]
     ELSE IF parent = 0
          THEN [ok |-> TRUE, id |-> id,
                W |-> [W EXCEPT !.comps = Append(@, fwc),
                                !.components = Append(@, id)]]
          ELSE [ok |-> TRUE, id |-> id,
                W |-> [W EXCEPT !.comps =
                         [Append(@, fwc) EXCEPT ![parent].children = Append(@, id)]]]

\* adds the component for the text of length len at s; id is the new
\* component, ok is FALSE when NULL is returned
fy_walk_add_component(W, parent, type, s, len) ==
  AddComponentLink(W, parent, type, SubSeq(W.path, s, s + len - 1),
                   ComponentPayload(type, SubSeq(W.path, s, s + len - 1)))

\* the inner loop of fy_walk_create: the comma-separated alternatives of one
\* path segment, starting at s.  SplitAt continues with the kind d found at
\* s, after the sibling mark if sib
\* the size of the array of splits: the commas of the path, plus one
split_alloc_one(p) == 1

split_alloc(p) == Cardinality({i \in 1..Len(p) : p[i] = ","}) + 1

RECURSIVE SplitLoop(_, _, _)
SplitAt(p, s, sib, splits, d) ==
  LET e    == Len(p) + 1
      bad  == [err |-> TRUE, s |-> s, splits |-> splits, overrun |-> FALSE]
      t    == d.next
      scal == t < e /\ p[t] = "$"
      t1   == IF scal THEN t + 1 ELSE t
      sps  == Append(splits, [sd |-> d.sd, s |-> s, len |-> t - s,
                              sibling_mark |-> sib, scalar_mark |-> scal])
  IN IF d.sd = 0 THEN bad
     ELSE IF sib /\ ~split_descs[d.sd].sibling_mark THEN bad
     ELSE IF ~(Len(splits) < split_alloc(p)) THEN [bad EXCEPT !.overrun = TRUE]
     ELSE IF scal /\ ~split_descs[d.sd].scalar_mark THEN bad
     ELSE IF t1 >= e
          THEN [err |-> FALSE, s |-> t1, splits |-> sps, overrun |-> FALSE]
     ELSE IF p[t1] = "/"
          THEN [err |-> FALSE, s |-> t1 + 1, splits |-> sps, overrun |-> FALSE]
     ELSE IF p[t1] = "," THEN SplitLoop(p, t1 + 1, sps)
     ELSE bad

SplitLoop(p, s, splits) ==
  LET sib == s <= Len(p) /\ p[s] = ":"
      s1  == IF sib THEN s + 1 ELSE s
  IN IF s > Len(p)
     THEN [err |-> FALSE, s |-> s, splits |-> splits, overrun |-> FALSE]
     ELSE SplitAt(p, s1, sib, splits, walk_get_split_desc(p, s1))

\* the components of one split: an optional chain holding an optional
\* parent, the component itself and an optional assert-scalar.  Each step
\* takes the result r of the fy_walk_add_component before it
AddSplitScalar(r, fwc_expr_parent, sp) ==
  IF ~r.ok THEN r
  ELSE IF sp.scalar_mark
       THEN fy_walk_add_component(r.W, fwc_expr_parent, "assert_scalar",
                                  sp.s + sp.len, 0)
       ELSE r

AddSplitComp(r, fwc_expr_parent, sp) ==
  IF ~r.ok THEN r
  ELSE AddSplitScalar(fy_walk_add_component(r.W, fwc_expr_parent,
                                            split_descs[sp.sd].ctype, sp.s, sp.len),
                      fwc_expr_parent, sp)

\* AddSplitExpr with no parent component for the sibling mark
AddSplitExpr_noparent(r, sp) ==
  IF ~r.ok THEN r
  ELSE AddSplitComp(r, r.id, sp)

AddSplitExpr(r, sp) ==
  IF ~r.ok THEN r
  ELSE IF sp.sibling_mark
       THEN AddSplitComp(fy_walk_add_component(r.W, r.id, "parent", sp.s, 0),
                         r.id, sp)
       ELSE AddSplitComp(r, r.id, sp)

AddSplit(W, fwc_parent, sp) ==
  IF sp.sibling_mark \/ sp.scalar_mark
  THEN AddSplitExpr(fy_walk_add_component(W, fwc_parent, "chain", sp.s, 0), sp)
  ELSE AddSplitExpr([ok |-> TRUE, W |-> W, id |-> fwc_parent], sp)

RECURSIVE AddSplits(_, _, _, _)
AddSplits(W, fwc_parent, splits, i) ==
  IF i > Len(splits) THEN [ok |-> TRUE, W |-> W, id |-> 0]
  ELSE LET r == AddSplit(W, fwc_parent, splits[i])
       IN IF ~r.ok THEN r ELSE AddSplits(r.W, fwc_parent, splits, i + 1)

\* the label done: a context without components is an error
CreateDone(W) == IF W.components = <<>> THEN NullCtx ELSE W

\* one path segment: the splits sl, the multi that holds more than one of
\* them, their components, and the check for a terminating component with
\* more remaining
RECURSIVE CreateLoop(_, _)
CreateComponents(ra, sl) ==
  LET W   == ra.W
      fwc == W.comps[W.components[Len(W.components)]]
  IN IF ~ra.ok THEN NullCtx
     ELSE IF fy_walk_component_type_is_terminating(fwc.type) /\ sl.s <= Len(W.path)
          THEN NullCtx
     ELSE CreateLoop(W, sl.s)

CreateMulti(rm, sl) ==
  IF ~rm.ok THEN NullCtx
  ELSE CreateComponents(AddSplits(rm.W, rm.id, sl.splits, 1), sl)

CreateSplits(W, s, sl) ==
  IF sl.overrun THEN [NullCtx EXCEPT !.aborted = TRUE]
  ELSE IF sl.err THEN NullCtx
  ELSE IF Len(sl.splits) = 0 THEN NullCtx
  ELSE IF Len(sl.splits) > 1
       THEN CreateMulti(fy_walk_add_component(W, 0, "multi", s, 0), sl)
       ELSE CreateMulti([ok |-> TRUE, W |-> W, id |-> 0], sl)

CreateSegment(W, s) == CreateSplits(W, s, SplitLoop(W.path, s, <<>>))

\* the terminating / of an iteration of the outer loop
CreateTerminatingSlash(W, s) ==
  IF W.path[s] = "/" /\ Len(W.path) + 1 - s <= 1
  THEN CreateDone(fy_walk_add_component(W, 0, "assert_collection", s, 1).W)
  ELSE CreateSegment(W, s)

\* after the start root of the first iteration
CreateAfterRoot(W, s) ==
  IF s > Len(W.path) THEN CreateDone(W) ELSE CreateTerminatingSlash(W, s)

\* the outer loop of fy_walk_create, at index s of the path
CreateLoop(W, s) ==
  IF s > Len(W.path) THEN CreateDone(W)
  ELSE IF W.path[s] = "/" /\ W.components = <<>>
       THEN CreateAfterRoot(fy_walk_add_component(W, 0, "start_root", s, 1).W, s + 1)
       ELSE CreateAfterRoot(W, s)

\* strip leading and trailing spaces
RECURSIVE StripLeading(_)
StripLeading(p) ==
  IF p # <<>> /\ isspace(Head(p)) THEN StripLeading(Tail(p)) ELSE p

RECURSIVE StripTrailing(_)
StripTrailing(p) ==
  IF p # <<>> /\ isspace(p[Len(p)]) THEN StripTrailing(SubSeq(p, 1, Len(p) - 1))
  ELSE p

\* the label err_out, reached with an initialized context by every failure
\* of the loop
CreateErrOut(W) ==
  IF W.valid \/ W.aborted THEN W ELSE [W EXCEPT !.destroyed = "initialized"]

\* the context built for a path, no context on any error.  The empty path
\* fails before the context is allocated; a path of spaces fails after the
\* malloc of the context and before its memset and list initialisation
fy_walk_create(p) ==
  LET q == StripTrailing(StripLeading(p))
  IN IF p = <<>> THEN [NullCtx EXCEPT !.destroyed = "NULL"]
     ELSE IF q = <<>> THEN [NullCtx EXCEPT !.destroyed = "uninitialized"]
     ELSE CreateErrOut(CreateLoop([valid |-> TRUE, path |-> q, comps |-> <<>>,
                                   components |-> <<>>, destroyed |-> "none",
                                   aborted |-> FALSE], 1))

\* fy_walk_destroy as err_out calls it, on the outcome W of fy_walk_create:
\* the outcomes of the call.  On a context that was never initialized it
\* pops from an indeterminate list and frees an indeterminate path pointer:
\* the call returns, or the program stops
fy_walk_destroy(W) ==
  IF W.destroyed = "uninitialized" THEN {W, [W EXCEPT !.aborted = TRUE]}
  ELSE {W}

(***************************************************************************)
(* Result lists.  Every fy_walk_result_alloc of one call is numbered; the  *)
(* allocator state A = [n, fail, failed] holds the number of allocations   *)
(* made so far, the set of allocation numbers for which malloc returns     *)
(* NULL, and whether one has failed.                                       *)
(***************************************************************************)
Allocator(fail) == [n |-> 0, fail |-> fail, failed |-> FALSE]

\* fy_walk_result_add without the scan for an entry holding the same node
fy_walk_result_add_noscan(rs, fyn, A) ==
  IF (A.n + 1) \in A.fail
  THEN [ret |-> 0 - 1, results |-> rs,
        A |-> [A EXCEPT !.n = @ + 1, !.failed = TRUE]]
  ELSE [ret |-> 0, results |-> Append(rs, fyn),
        A |-> [A EXCEPT !.n = @ + 1]]

fy_walk_result_add(rs, fyn, A) ==
  IF fyn \in Range(rs) THEN [ret |-> 0, results |-> rs, A |-> A]
  ELSE IF (A.n + 1) \in A.fail
       THEN [ret |-> 0 - 1, results |-> rs,
             A |-> [A EXCEPT !.n = @ + 1, !.failed = TRUE]]
       ELSE [ret |-> 0, results |-> Append(rs, fyn),
             A |-> [A EXCEPT !.n = @ + 1]]

RECURSIVE fy_walk_result_add_recursive(_, _, _, _)
RECURSIVE AddRecursiveItems(_, _, _, _)

\* the loop over the elements of a sequence or the values of a mapping
AddRecursiveItems(rs, items, leaf_only, A) ==
  IF items = <<>> THEN [ret |-> 0, results |-> rs, A |-> A]
  ELSE LET r == fy_walk_result_add_recursive(rs, Head(items), leaf_only, A)
       IN IF r.ret # 0 THEN r
          ELSE AddRecursiveItems(r.results, Tail(items), leaf_only, r.A)

\* fy_walk_result_add_recursive adding a collection whatever leaf_only is
fy_walk_result_add_recursive_noleaf(rs, fyn, leaf_only, A) ==
  IF fyn = 0 THEN [ret |-> 0, results |-> rs, A |-> A]
  ELSE IF fy_node_is_scalar(fyn) THEN fy_walk_result_add(rs, fyn, A)
  ELSE LET r == fy_walk_result_add(rs, fyn, A)
       IN IF r.ret # 0 THEN r
          ELSE AddRecursiveItems(r.results, NodeTable[fyn].items, leaf_only, r.A)

fy_walk_result_add_recursive(rs, fyn, leaf_only, A) ==
  IF fyn = 0 THEN [ret |-> 0, results |-> rs, A |-> A]
  ELSE IF fy_node_is_scalar(fyn) THEN fy_walk_result_add(rs, fyn, A)
  ELSE LET r == IF ~leaf_only THEN fy_walk_result_add(rs, fyn, A)
                ELSE [ret |-> 0, results |-> rs, A |-> A]
       IN IF r.ret # 0 THEN r
          ELSE AddRecursiveItems(r.results, NodeTable[fyn].items, leaf_only, r.A)

(***************************************************************************)
(* Evaluation of the component tree.                                       *)
(***************************************************************************)
\* a complex key (quoted, flow sequence or flow mapping) looked up in a
\* mapping: a quoted key matches the pair whose key is the quoted text
fy_node_mapping_lookup_value_by_key(fyn, comp) ==
  IF Len(comp) >= 2 /\ comp[1] \in {"\"", "'"}
  THEN fy_node_mapping_lookup_value_by_simple_key(fyn, SubSeq(comp, 2, Len(comp) - 1))
  ELSE 0

\* fy_walk_component_next_node_single with a root that stays at the node
fy_walk_component_next_node_single_noroot(W, fwc, fyn) ==
  LET c == W.comps[fwc]
  IN IF fyn = 0 THEN 0
     ELSE CASE c.type \in {"start_root", "root", "this"} -> fyn
            [] c.type = "start_alias" ->
                 fy_document_lookup_anchor(NodeTable[fyn].doc, Tail(c.comp))
            [] c.type = "parent" -> fy_node_get_parent(fyn)
            [] c.type = "simple_map_key" ->
                 IF ~fy_node_is_mapping(fyn) THEN 0
                 ELSE fy_node_mapping_lookup_value_by_simple_key(fyn, c.comp)
            [] c.type = "map_key" ->
                 IF ~fy_node_is_mapping(fyn) THEN 0
                 ELSE fy_node_mapping_lookup_value_by_key(fyn, c.comp)
            [] c.type = "seq_index" ->
                 IF ~fy_node_is_sequence(fyn) THEN 0
                 ELSE fy_node_sequence_get_by_index(fyn, c.index)
            [] c.type = "assert_collection" ->
                 IF ~fy_node_is_scalar(fyn) THEN fyn ELSE 0
            [] c.type = "assert_scalar" ->
                 IF fy_node_is_scalar(fyn) THEN fyn ELSE 0
            [] c.type = "assert_sequence" ->
                 IF fy_node_is_sequence(fyn) THEN fyn ELSE 0
            [] c.type = "assert_mapping" ->
                 IF fy_node_is_mapping(fyn) THEN fyn ELSE 0
            [] OTHER -> 0

fy_walk_component_next_node_single(W, fwc, fyn) ==
  LET c == W.comps[fwc]
  IN IF fyn = 0 THEN 0
     ELSE CASE c.type \in {"start_root", "root"} -> DocRoot[NodeTable[fyn].doc]
            [] c.type = "start_alias" ->
                 fy_document_lookup_anchor(NodeTable[fyn].doc, Tail(c.comp))
            [] c.type = "this" -> fyn
            [] c.type = "parent" -> fy_node_get_parent(fyn)
            [] c.type = "simple_map_key" ->
                 IF ~fy_node_is_mapping(fyn) THEN 0
                 ELSE fy_node_mapping_lookup_value_by_simple_key(fyn, c.comp)
            [] c.type = "map_key" ->
                 IF ~fy_node_is_mapping(fyn) THEN 0
                 ELSE fy_node_mapping_lookup_value_by_key(fyn, c.comp)
            [] c.type = "seq_index" ->
                 IF ~fy_node_is_sequence(fyn) THEN 0
                 ELSE fy_node_sequence_get_by_index(fyn, c.index)
            [] c.type = "assert_collection" ->
                 IF ~fy_node_is_scalar(fyn) THEN fyn ELSE 0
            [] c.type = "assert_scalar" ->
                 IF fy_node_is_scalar(fyn) THEN fyn ELSE 0
            [] c.type = "assert_sequence" ->
                 IF fy_node_is_sequence(fyn) THEN fyn ELSE 0
            [] c.type = "assert_mapping" ->
                 IF fy_node_is_mapping(fyn) THEN fyn ELSE 0
            [] OTHER -> 0

\* the element after x in a component list, 0 at the tail
fy_walk_component_next(list, x) ==
  LET i == CHOOSE k \in 1..Len(list) : list[k] = x
  IN IF i < Len(list) THEN list[i + 1] ELSE 0

RECURSIVE fy_walk_component_next_in_seq(_, _)
fy_walk_component_next_in_seq(W, fwc) ==
  IF fwc = 0 THEN 0
  ELSE IF W.comps[fwc].parent = 0 THEN fy_walk_component_next(W.components, fwc)
  ELSE IF W.comps[W.comps[fwc].parent].type = "multi"
       THEN fy_walk_component_next_in_seq(W, W.comps[fwc].parent)
  ELSE fy_walk_component_next(W.comps[W.comps[fwc].parent].children, fwc)

\* the loop over single-node components: the node and the component it
\* stops at (fyn = 0 when a component yields no node)
RECURSIVE SingleLoop(_, _, _)
SingleLoop(W, fyn, fwc) ==
  IF fwc # 0 /\ ~fy_walk_component_type_is_multi(W.comps[fwc].type)
  THEN LET fynn == fy_walk_component_next_node_single(W, fwc, fyn)
       IN IF fynn = 0 THEN [fyn |-> 0, fwc |-> fwc]
          ELSE SingleLoop(W, fynn, fy_walk_component_next_in_seq(W, fwc))
  ELSE [fyn |-> fyn, fwc |-> fwc]

\* a missing node reported as an error
WalkNoNode_error(rs, A) == [ret |-> 0 - 1, results |-> rs, A |-> A]

\* no node to continue with: not an error
WalkNoNode(rs, A) == [ret |-> 0, results |-> rs, A |-> A]

\* the slice loop running up to and including end_index
SliceNodes_inclusive(fyn, start_index, end_index) ==
  LET all == [k \in 1..(end_index - start_index + 1) |->
                fy_node_sequence_get_by_index(fyn, start_index + k - 1)]
  IN SelectSeq(all, LAMBDA n : n # 0)

\* the nodes a slice visits: indices start_index .. end_index - 1, skipping
\* those the sequence does not have
SliceNodes(fyn, start_index, end_index) ==
  LET all == [k \in 1..(end_index - start_index) |->
                fy_node_sequence_get_by_index(fyn, start_index + k - 1)]
  IN SelectSeq(all, LAMBDA n : n # 0)

RECURSIVE fy_walk_perform_internal(_, _, _, _, _)
RECURSIVE PerformEach(_, _, _, _, _)
RECURSIVE PerformBranches(_, _, _, _, _)

\* the loops that walk each node of a list from component fwc, stopping at
\* the first error
PerformEach(W, rs, nodes, fwc, A) ==
  IF nodes = <<>> THEN [ret |-> 0, results |-> rs, A |-> A]
  ELSE LET r == fy_walk_perform_internal(W, rs, Head(nodes), fwc, A)
       IN IF r.ret # 0 THEN r
          ELSE PerformEach(W, r.results, Tail(nodes), fwc, r.A)

\* the loop of a multi: each child from the same node
PerformBranches(W, rs, fyn, children, A) ==
  IF children = <<>> THEN [ret |-> 0, results |-> rs, A |-> A]
  ELSE LET r == fy_walk_perform_internal(W, rs, fyn, Head(children), A)
       IN IF r.ret # 0 THEN r
          ELSE PerformBranches(W, r.results, fyn, Tail(children), r.A)

\* case fwct_every_child: the children are walked from fwc itself
WalkEveryChild(W, rs, fyn, fwc, A) ==
  IF fy_node_is_scalar(fyn) THEN fy_walk_result_add(rs, fyn, A)
  ELSE PerformEach(W, rs, NodeTable[fyn].items, fwc, A)

\* case fwct_every_child_r, fwct_every_leaf
WalkEveryChildR(W, rs, fyn, fwc, A) ==
  LET fwcn == fy_walk_component_next_in_seq(W, fwc)
      lf   == W.comps[fwc].type = "every_leaf"
      t    == fy_walk_result_add_recursive(<<>>, fyn, lf, A)
  IN IF fwcn = 0 THEN fy_walk_result_add_recursive(rs, fyn, lf, A)
     ELSE IF t.ret # 0 THEN [ret |-> t.ret, results |-> rs, A |-> t.A]
     ELSE PerformEach(W, rs, t.results, fwcn, t.A)

\* case fwct_seq_slice
WalkSeqSlice(W, rs, fyn, fwc, A) ==
  LET start_index == W.comps[fwc].start_index
      end_index == IF W.comps[fwc].end_index = 0 - 1
                   THEN fy_node_sequence_item_count(fyn)
                   ELSE W.comps[fwc].end_index
      fwcn == fy_walk_component_next_in_seq(W, fwc)
  IN IF ~fy_node_is_sequence(fyn) THEN [ret |-> 0, results |-> rs, A |-> A]
     ELSE IF start_index < 0 \/ end_index < 0 \/ start_index >= end_index
          THEN [ret |-> 0, results |-> rs, A |-> A]
     ELSE IF start_index >= fy_node_sequence_item_count(fyn)
          THEN [ret |-> 0, results |-> rs, A |-> A]
     ELSE PerformEach(W, rs, SliceNodes(fyn, start_index, end_index), fwcn, A)

\* case fwct_multi
WalkMulti(W, rs, fyn, fwc, A) ==
  PerformBranches(W, rs, fyn, W.comps[fwc].children, A)

\* the end of a chain with no next component: every node of the temporary
\* list is added, the return value of the add is not looked at
RECURSIVE AddAllUnchecked(_, _, _)
AddAllUnchecked(rs, nodes, A) ==
  IF nodes = <<>> THEN [ret |-> 0, results |-> rs, A |-> A]
  ELSE LET r == fy_walk_result_add(rs, Head(nodes), A)
       IN AddAllUnchecked(r.results, Tail(nodes), r.A)

\* case fwct_chain
WalkChain(W, rs, fyn, fwc, A) ==
  LET ch   == W.comps[fwc].children
      head == IF ch = <<>> THEN 0 ELSE ch[1]
      t    == fy_walk_perform_internal(W, <<>>, fyn, head, A)
      fwcn == fy_walk_component_next_in_seq(W, fwc)
  IN IF t.ret # 0 THEN [ret |-> t.ret, results |-> rs, A |-> t.A]
     ELSE IF fwcn = 0 THEN AddAllUnchecked(rs, t.results, t.A)
     ELSE PerformEach(W, rs, t.results, fwcn, t.A)

fy_walk_perform_internal(W, rs, fyn, fwc, A) ==
  IF fyn = 0 THEN WalkNoNode(rs, A)
  ELSE LET sl == SingleLoop(W, fyn, fwc)
           ty == W.comps[sl.fwc].type
       IN IF sl.fyn = 0 THEN WalkNoNode(rs, A)
          ELSE IF sl.fwc = 0 THEN fy_walk_result_add(rs, sl.fyn, A)
          ELSE CASE ty = "every_child" -> WalkEveryChild(W, rs, sl.fyn, sl.fwc, A)
                 [] ty \in {"every_child_r", "every_leaf"} ->
                      WalkEveryChildR(W, rs, sl.fyn, sl.fwc, A)
                 [] ty = "seq_slice" -> WalkSeqSlice(W, rs, sl.fyn, sl.fwc, A)
                 [] ty = "multi" -> WalkMulti(W, rs, sl.fyn, sl.fwc, A)
                 [] ty = "chain" -> WalkChain(W, rs, sl.fyn, sl.fwc, A)
                 [] OTHER -> [ret |-> 0, results |-> rs, A |-> A]

fy_walk_perform(W, rs, fyn, A) ==
  IF ~W.valid \/ fyn = 0 THEN [ret |-> 0 - 1, results |-> rs, A |-> A]
  ELSE IF W.components = <<>> THEN [ret |-> 0 - 1, results |-> rs, A |-> A]
  ELSE fy_walk_perform_internal(W, rs, fyn, W.components[1], A)

(***************************************************************************)
(* The path parser (struct fy_path_parser).  A parser P is a record:       *)
(*   input, pos     the reader: the expression text and the index of the   *)
(*                  next character                                         *)
(*   queued_tokens  tokens fetched and not yet removed                     *)
(*   stream_start_produced, stream_end_produced, stream_error,             *)
(*   token_activity_counter, suppress_recycling   as in the source         *)
(*   int_overflow   what the build does with a signed product that does    *)
(*                  not fit an int: "wrap" or "trap"                       *)
(*   operators      the operator stack (tokens), top at the tail           *)
(*   operands       the operand stack (expressions), top at the tail       *)
(*   exprs          the arena of expression nodes; an expression is the    *)
(*                  index of its node, 0 is NULL                           *)
(*   expr_recycle   the recycling pool                                     *)
(*   pc, result     where fy_path_parse_expression stands and what it      *)
(*                  returned                                               *)
(* A token is [type, pos, len, a, b]: pos and len give its atom, a and b   *)
(* the indices of a sequence index or slice.                               *)
(***************************************************************************)
NoToken == [type |-> "NONE", pos |-> 0, len |-> 0, a |-> 0, b |-> 0]

\* fy_reader_peek_at: the character i places after the cursor, "EOF" past
\* the end of the input
fy_reader_peek_at(P, i) ==
  IF P.pos + i <= Len(P.input) THEN P.input[P.pos + i] ELSE "EOF"

fy_is_z(c) == c = "EOF"

fy_is_num(c) == c \in Range(Digits)

fy_is_alnum(c) == fy_is_alpha(c) \/ fy_is_num(c)

fy_is_path_flow_key_start(c) == c \in {"\"", "'", "{", "["}

\* fy_path_token_queue with the atom fy_reader_fill_atom_a(fyr, len): the
\* token is queued, the reader advances over the atom
fy_path_token_queue(P, type, len, a, b) ==
  [P EXCEPT !.queued_tokens =
              Append(@, [type |-> type, pos |-> P.pos, len |-> len,
                         a |-> a, b |-> b]),
            !.pos = @ + len,
            !.token_activity_counter = @ + 1]

\* the label err_out of the fetch functions
FetchError(P) == [P EXCEPT !.stream_error = TRUE]

\* val * 10 on a 32-bit int, for val >= 0, computed on 16-bit halves:
\* MulTenHigh is the product divided by 2^16 (the product fits the int when
\* it is below 2^15), MulTenWrapped the product reduced modulo 2^32 and read
\* as a signed int
MulTenHigh(val) == (val \div 65536) * 10 + ((val % 65536) * 10) \div 65536

MulTenWrapped(val) ==
  (IF MulTenHigh(val) % 65536 >= 32768
   THEN (MulTenHigh(val) % 65536) - 65536
   ELSE MulTenHigh(val) % 65536) * 65536 + (((val % 65536) * 10) % 65536)

\* x | d for an int x and a digit d: the low four bits are or-ed, the rest
\* of x is kept
OrDigit(x, d) == (x - (x % 16)) + BitOr(x % 16, d)

\* the digit loop of fy_path_fetch_seq_index_or_slice from offset i:
\* nval = (val * 10) | digit for every digit, refused when nval < val or
\* nval < 0.  A product that does not fit the int is undefined: the build
\* either wraps it around or traps (P.int_overflow), and a trap stops the
\* program (pc = "abort").
RECURSIVE FetchDigits(_, _, _, _)
FetchDigitsChecked(P, i, val, nval, digits) ==
  IF nval >= val /\ nval >= 0 THEN FetchDigits(P, i + 1, nval, digits + 1)
  ELSE [i |-> i, val |-> val, digits |-> digits, err |-> "overflow"]

FetchDigits(P, i, val, digits) ==
  IF ~fy_is_num(fy_reader_peek_at(P, i))
  THEN [i |-> i, val |-> val, digits |-> digits, err |-> "none"]
  ELSE IF MulTenHigh(val) >= 32768 /\ P.int_overflow = "trap"
       THEN [i |-> i, val |-> val, digits |-> digits, err |-> "trap"]
  ELSE FetchDigitsChecked(P, i, val,
                          OrDigit(MulTenWrapped(val),
                                  DigitVal(fy_reader_peek_at(P, i))),
                          digits)

\* after the number d of round j: the slice continues on a : that a number
\* follows
RECURSIVE FetchIndexRound(_, _, _, _, _)
FetchIndexAfter(P, j, indices, neg, d) ==
  LET ind == [indices EXCEPT ![j + 1] = IF neg THEN 0 - d.val ELSE d.val]
      c   == fy_reader_peek_at(P, d.i + 1)
      more == /\ fy_reader_peek_at(P, d.i) = ":"
              /\ \/ fy_is_num(c)
                 \/ c = "-" /\ fy_is_num(fy_reader_peek_at(P, d.i + 2))
  IN IF d.err = "trap" THEN [P EXCEPT !.pc = "abort"]
     ELSE IF d.err = "overflow" THEN FetchError(P)
     ELSE IF ~((d.val = 0 /\ d.digits = 1) \/ d.val > 0) THEN FetchError(P)
     ELSE IF more /\ j + 1 < 2 THEN FetchIndexRound(P, c, d.i + 1, j + 1, ind)
     ELSE IF more
          THEN fy_path_token_queue(P, "PE_SEQ_SLICE", d.i + 1, ind[1], ind[2])
     ELSE IF j >= 1
          THEN fy_path_token_queue(P, "PE_SEQ_SLICE", d.i, ind[1], ind[2])
     ELSE fy_path_token_queue(P, "PE_SEQ_INDEX", d.i, ind[1], 0)

\* round j of the loop: an optional sign, then the digits
FetchIndexRound(P, c, i, j, indices) ==
  FetchIndexAfter(P, j, indices, c = "-",
                  FetchDigits(P, IF c = "-" THEN i + 1 ELSE i, 0, 0))

fy_path_fetch_seq_index_or_slice(P, c) ==
  FetchIndexRound(P, c, 0, 0, <<0 - 1, 0 - 1>>)

\* the alphanumeric run that starts i places after the cursor
RECURSIVE SkipAlnum(_, _)
SkipAlnum(P, i) ==
  IF fy_is_alnum(fy_reader_peek_at(P, i)) THEN SkipAlnum(P, i + 1) ELSE i

fy_path_fetch_simple_map_key(P, c) ==
  fy_path_token_queue(P, "PE_MAP_KEY", SkipAlnum(P, 1), 0, 0)

\* the flow-only document loader: it consumes the quoted or bracketed
\* literal at the cursor, or fails when the literal is not closed
fy_parse_load_document(P) == walk_container_get_extent(P.input, P.pos)

FlowMapKeyLoaded(P, t) ==
  IF t = ExtErr THEN FetchError(P)
  ELSE fy_path_token_queue(P, "PE_MAP_KEY", t - P.pos, 0, 0)

fy_path_fetch_flow_map_key(P, c) == FlowMapKeyLoaded(P, fy_parse_load_document(P))

\* a switch that looks at the first character only
SimpleToken_first(P, c) ==
  CASE c = "/" -> [type |-> "PE_SLASH", count |-> 1]
    [] c = "^" -> [type |-> "PE_ROOT", count |-> 1]
    [] c = ":" -> [type |-> "PE_SIBLING", count |-> 1]
    [] c = "$" -> [type |-> "PE_SCALAR_FILTER", count |-> 1]
    [] c = "%" -> [type |-> "PE_COLLECTION_FILTER", count |-> 1]
    [] c = "," -> [type |-> "PE_COMMA", count |-> 1]
    [] c = "." -> [type |-> "PE_THIS", count |-> 1]
    [] c = "*" -> [type |-> "PE_EVERY_CHILD", count |-> 1]
    [] OTHER -> [type |-> "NONE", count |-> 0]

\* the switch of fy_path_fetch_tokens: type and simple_token_count
SimpleToken(P, c) ==
  LET c1 == fy_reader_peek_at(P, 1)
      no == [type |-> "NONE", count |-> 0]
  IN CASE c = "/" -> [type |-> "PE_SLASH", count |-> 1]
       [] c = "^" -> [type |-> "PE_ROOT", count |-> 1]
       [] c = ":" -> [type |-> "PE_SIBLING", count |-> 1]
       [] c = "$" -> [type |-> "PE_SCALAR_FILTER", count |-> 1]
       [] c = "%" -> [type |-> "PE_COLLECTION_FILTER", count |-> 1]
       [] c = "[" -> IF c1 = "]" THEN [type |-> "PE_SEQ_FILTER", count |-> 2] ELSE no
       [] c = "{" -> IF c1 = "}" THEN [type |-> "PE_MAP_FILTER", count |-> 2] ELSE no
       [] c = "," -> [type |-> "PE_COMMA", count |-> 1]
       [] c = "." -> IF c1 = "." THEN [type |-> "PE_PARENT", count |-> 2]
                     ELSE [type |-> "PE_THIS", count |-> 1]
       [] c = "*" -> IF c1 = "*" THEN [type |-> "PE_EVERY_CHILD_R", count |-> 2]
                     ELSE IF ~fy_is_first_alpha(c1)
                          THEN [type |-> "PE_EVERY_CHILD", count |-> 1]
                     ELSE [type |-> "PE_ALIAS", count |-> SkipAlnum(P, 2)]
       [] OTHER -> no

FetchToken(P, c, st) ==
  IF st.count > 0 THEN fy_path_token_queue(P, st.type, st.count, 0, 0)
  ELSE IF fy_is_first_alpha(c) THEN fy_path_fetch_simple_map_key(P, c)
  ELSE IF fy_is_path_flow_key_start(c) THEN fy_path_fetch_flow_map_key(P, c)
  ELSE IF fy_is_num(c) \/ (c = "-" /\ fy_is_num(fy_reader_peek_at(P, 1)))
       THEN fy_path_fetch_seq_index_or_slice(P, c)
  ELSE FetchError(P)

fy_path_fetch_tokens(P) ==
  IF ~P.stream_start_produced
  THEN [fy_path_token_queue(P, "STREAM_START", 0, 0, 0)
          EXCEPT !.stream_start_produced = TRUE]
  ELSE IF fy_is_z(fy_reader_peek_at(P, 0))
       THEN fy_path_token_queue(P, "STREAM_END", 0, 0, 0)
  ELSE FetchToken(P, fy_reader_peek_at(P, 0), SimpleToken(P, fy_reader_peek_at(P, 0)))

\* fy_path_scan_peek(fypp, NULL): the parser after the fetches made, and the
\* token at the head of the queue, NoToken for NULL
ScanPeekHead(P) ==
  LET fyt == Head(P.queued_tokens)
  IN [P   |-> IF fyt.type = "STREAM_START"
              THEN [P EXCEPT !.stream_start_produced = TRUE]
              ELSE IF fyt.type = "STREAM_END"
                   THEN [P EXCEPT !.stream_end_produced = TRUE]
              ELSE P,
      fyt |-> fyt]

RECURSIVE ScanPeekLoop(_)
ScanPeekFetched(P, Q) ==
  IF Q.pc = "abort" \/ Q.stream_error THEN [P |-> Q, fyt |-> NoToken]
  ELSE IF Q.token_activity_counter = P.token_activity_counter
       THEN [P |-> Q, fyt |-> NoToken]
  ELSE ScanPeekLoop(Q)

ScanPeekLoop(P) ==
  IF P.queued_tokens # <<>> THEN ScanPeekHead(P)
  ELSE IF P.stream_error THEN [P |-> P, fyt |-> NoToken]
  ELSE ScanPeekFetched(P, fy_path_fetch_tokens(P))

fy_path_scan_peek(P) ==
  IF P.stream_end_produced /\ P.queued_tokens = <<>>
  THEN [P |-> P, fyt |-> NoToken]
  ELSE ScanPeekLoop(P)

\* fy_path_scan_remove of the token at the head of the queue
fy_path_scan_remove(P) == [P EXCEPT !.queued_tokens = Tail(@)]

\* fy_path_scan: the peeked token is taken off the queue and handed out;
\* removing NULL does nothing
ScanRemoved(pk) ==
  IF pk.fyt = NoToken THEN pk
  ELSE [P |-> fy_path_scan_remove(pk.P), fyt |-> pk.fyt]

fy_path_scan(P) == ScanRemoved(fy_path_scan_peek(P))

(***************************************************************************)
(* Path expressions (struct fy_path_expr): a node of the arena is          *)
(* [type, fyt, children], with fyt = NoToken for a NULL token.             *)
(***************************************************************************)
\* a node as fy_path_expr_alloc leaves it: zeroed, no children
ZeroExpr == [type |-> "none", fyt |-> NoToken, children |-> <<>>]

\* a node whose memory was given back by free()
FreedExpr == [type |-> "freed", fyt |-> NoToken, children |-> <<>>]

fy_path_expr_alloc(P) ==
  [P |-> [P EXCEPT !.exprs = Append(@, ZeroExpr)], expr |-> Len(P.exprs) + 1]

RECURSIVE fy_path_expr_free(_, _)
RECURSIVE FreeChildren(_, _)
FreeChildren(P, cs) ==
  IF cs = <<>> THEN P ELSE FreeChildren(fy_path_expr_free(P, Head(cs)), Tail(cs))

fy_path_expr_free(P, expr) ==
  IF expr = 0 THEN P
  ELSE [FreeChildren(P, P.exprs[expr].children) EXCEPT !.exprs[expr] = FreedExpr]

fy_path_expr_alloc_recycle(P) ==
  IF P.suppress_recycling THEN fy_path_expr_alloc(P)
  ELSE IF P.expr_recycle # <<>>
       THEN [P |-> [P EXCEPT !.expr_recycle = Tail(@)], expr |-> Head(P.expr_recycle)]
  ELSE fy_path_expr_alloc(P)

RECURSIVE fy_path_expr_free_recycle(_, _)
RECURSIVE RecycleChildren(_, _)
RecycleChildren(P, cs) ==
  IF cs = <<>> THEN P
  ELSE RecycleChildren(fy_path_expr_free_recycle(P, Head(cs)), Tail(cs))

fy_path_expr_free_recycle(P, expr) ==
  IF P.suppress_recycling THEN fy_path_expr_free(P, expr)
  ELSE [RecycleChildren(P, P.exprs[expr].children)
          EXCEPT !.exprs[expr].children = <<>>,
                 !.exprs[expr].fyt = NoToken,
                 !.expr_recycle = Append(@, expr)]

fy_map_token_to_path_expr_type(type) ==
  CASE type = "PE_ROOT" -> "root"
    [] type = "PE_THIS" -> "this"
    [] type = "PE_PARENT" -> "parent"
    [] type = "PE_MAP_KEY" -> "map_key"
    [] type = "PE_SEQ_INDEX" -> "seq_index"
    [] type = "PE_SEQ_SLICE" -> "seq_slice"
    [] type = "PE_EVERY_CHILD" -> "every_child"
    [] type = "PE_EVERY_CHILD_R" -> "every_child_r"
    [] type = "PE_ALIAS" -> "alias"
    [] type = "PE_SCALAR_FILTER" -> "assert_scalar"
    [] type = "PE_COLLECTION_FILTER" -> "assert_collection"
    [] type = "PE_SEQ_FILTER" -> "assert_sequence"
    [] type = "PE_MAP_FILTER" -> "assert_mapping"
    [] OTHER -> "none"

fy_token_type_is_operand(type) ==
  type \in {"PE_ROOT", "PE_THIS", "PE_PARENT", "PE_MAP_KEY", "PE_SEQ_INDEX",
            "PE_SEQ_SLICE", "PE_EVERY_CHILD", "PE_EVERY_CHILD_R", "PE_ALIAS"}

IsFilterToken(type) ==
  type \in {"PE_SCALAR_FILTER", "PE_COLLECTION_FILTER", "PE_SEQ_FILTER",
            "PE_MAP_FILTER"}

push_operand(P, expr) == [P EXCEPT !.operands = Append(@, expr)]

\* pop_operand: the expression popped, 0 when the stack is empty
TopOperand(P) == IF P.operands = <<>> THEN 0 ELSE P.operands[Len(P.operands)]

\* a pop that leaves the expression on the stack
pop_operand_keep(P) == P

pop_operand(P) ==
  IF P.operands = <<>> THEN P
  ELSE [P EXCEPT !.operands = SubSeq(@, 1, Len(@) - 1)]

push_operator(P, fyt) == [P EXCEPT !.operators = Append(@, fyt)]

peek_operator(P) ==
  IF P.operators = <<>> THEN NoToken ELSE P.operators[Len(P.operators)]

pop_operator(P) ==
  IF P.operators = <<>> THEN P
  ELSE [P EXCEPT !.operators = SubSeq(@, 1, Len(@) - 1)]

fy_token_type_operator_prec(type) ==
  CASE type = "PE_SLASH" -> 10
    [] IsFilterToken(type) -> 5
    [] type = "PE_SIBLING" -> 20
    [] type = "PE_COMMA" -> 15
    [] OTHER -> 0 - 1

\* fy_token_start_mark: the input position of the token's first character,
\* 0 (NULL) for no token
fy_token_start_mark(fyt) == IF fyt = NoToken THEN 0 ELSE fyt.pos

RECURSIVE fy_path_expr_start_mark(_, _)
fy_path_expr_start_mark(P, expr) ==
  IF expr = 0 THEN 0
  ELSE IF P.exprs[expr].type \notin {"chain", "multi"}
       THEN fy_token_start_mark(P.exprs[expr].fyt)
  ELSE IF P.exprs[expr].children = <<>> THEN 0
  ELSE fy_path_expr_start_mark(P, Head(P.exprs[expr].children))

\* an expression from fy_path_expr_alloc_recycle with its type and token
\* set, as every caller does
SetExpr(a, type, fyt) ==
  [P |-> [a.P EXCEPT !.exprs[a.expr].type = type, !.exprs[a.expr].fyt = fyt],
   expr |-> a.expr]

NewExpr(P, type, fyt) == SetExpr(fy_path_expr_alloc_recycle(P), type, fyt)

\* push_operand of an expression just made
PushExpr(a) == push_operand(a.P, a.expr)

\* fy_path_expr_list_add_tail(&parent->children, expr)
AddTail(P, parent, expr) ==
  [P EXCEPT !.exprs[parent].children = Append(@, expr)]

\* the loop with the children left on from as well
MoveChildren_copy(P, from, to) ==
  [P EXCEPT !.exprs[to].children = @ \o P.exprs[from].children]

\* the loop that moves the children of from to the tail of to
MoveChildren(P, from, to) ==
  [P EXCEPT !.exprs[to].children = @ \o P.exprs[from].children,
            !.exprs[from].children = <<>>]

(***************************************************************************)
(* evaluate: pop the top operator, apply it to the operand stack.  The     *)
(* result is [P, ret]: ret is 0 or -1, and P.pc = "abort" when an          *)
(* assertion of the function failed.                                       *)
(***************************************************************************)
EvalOk(P) == [P |-> P, ret |-> 0]

EvalAbort(P) == [P |-> [P EXCEPT !.pc = "abort"], ret |-> 0]

\* the label err_out of evaluate
EvalErr(P, exprl, exprr, chain, multi) ==
  [P |-> fy_path_expr_free(fy_path_expr_free(fy_path_expr_free(
           fy_path_expr_free(P, exprl), exprr), chain), multi),
   ret |-> 0 - 1]

\* lines 2267-2280 with the right operand kept whole when it is a chain
SlashAppend_nosplice(b, chain) ==
  EvalOk(push_operand(AddTail(b.P, chain, b.expr), chain))

\* lines 2267-2280: append the right operand, or splice it when it is a chain
SlashAppend(b, chain) ==
  IF b.P.exprs[b.expr].type # "chain"
  THEN EvalOk(push_operand(AddTail(b.P, chain, b.expr), chain))
  ELSE EvalOk(push_operand(
         fy_path_expr_free_recycle(MoveChildren(b.P, b.expr, chain), b.expr),
         chain))

\* lines 2253-2265: no right operand makes the slash a collection marker
SlashRight(a, exprr, fyt_top) ==
  IF exprr = 0
  THEN IF fyt_top = NoToken THEN EvalAbort(a.P)
       ELSE SlashAppend(NewExpr(a.P, "assert_collection", fyt_top), a.expr)
  ELSE SlashAppend([P |-> a.P, expr |-> exprr], a.expr)

\* a new chain that holds exprl
ChainOf(a, exprl) == [P |-> AddTail(a.P, a.expr, exprl), expr |-> a.expr]

\* lines 2236-2251: chain the left operand, or reuse it when it is a chain
SlashChain(P, exprl, exprr, fyt_top) ==
  IF P.exprs[exprl].type # "chain"
  THEN SlashRight(ChainOf(NewExpr(P, "chain", NoToken), exprl), exprr, fyt_top)
  ELSE SlashRight([P |-> P, expr |-> exprl], exprr, fyt_top)

SlashLeftRoot(a, exprr) == SlashChain(a.P, a.expr, exprr, NoToken)

\* lines 2207-2234: one operand; the marks say on which side the slash is
SlashOne(P, exprr, fyt_top, m1, m2) ==
  IF m1 = 0 \/ m2 = 0 THEN EvalAbort(P)
  ELSE IF m1 < m2 THEN SlashLeftRoot(NewExpr(P, "root", fyt_top), exprr)
  ELSE SlashChain(P, exprr, 0, fyt_top)

EvalSlash(P, fyt_top) ==
  IF P.operands = <<>> THEN EvalOk(PushExpr(NewExpr(P, "root", fyt_top)))
  ELSE IF Len(P.operands) = 1
       THEN SlashOne(pop_operand(P), TopOperand(P), fyt_top,
                     fy_token_start_mark(fyt_top),
                     fy_path_expr_start_mark(P, TopOperand(P)))
  ELSE SlashChain(pop_operand(pop_operand(P)), TopOperand(pop_operand(P)),
                  TopOperand(P), fyt_top)

\* lines 2299-2321: Chain[Parent, exprr]
SiblingChain(a, b, exprr) ==
  EvalOk(push_operand(AddTail(AddTail(b.P, a.expr, b.expr), a.expr, exprr),
                      a.expr))

SiblingParent(a, exprr) == SiblingChain(a, NewExpr(a.P, "parent", NoToken), exprr)

EvalSibling(P, fyt_top) ==
  IF P.operands = <<>> THEN EvalErr(P, 0, 0, 0, 0)
  ELSE IF ~(P.exprs[TopOperand(P)].fyt # NoToken
            /\ P.exprs[TopOperand(P)].fyt.type = "PE_MAP_KEY")
       THEN EvalErr(pop_operand(P), 0, TopOperand(P), 0, 0)
  ELSE SiblingParent(NewExpr(pop_operand(P), "chain", fyt_top), TopOperand(P))

\* lines 2355-2368: append the right operand, or splice it when it is a multi
CommaAppend(a, exprr) ==
  IF a.P.exprs[exprr].type # "multi"
  THEN EvalOk(push_operand(AddTail(a.P, a.expr, exprr), a.expr))
  ELSE EvalOk(push_operand(
         fy_path_expr_free_recycle(MoveChildren(a.P, exprr, a.expr), exprr),
         a.expr))

\* lines 2337-2353: a new multi for the left operand, or the left operand
\* when it is a multi
CommaMulti(P, exprl, exprr, fyt_top) ==
  IF P.exprs[exprl].type # "multi"
  THEN CommaAppend(ChainOf(NewExpr(P, "multi", fyt_top), exprl), exprr)
  ELSE CommaAppend([P |-> P, expr |-> exprl], exprr)

EvalComma(P, fyt_top) ==
  IF P.operands = <<>> THEN EvalErr(P, 0, 0, 0, 0)
  ELSE IF Len(P.operands) = 1
       THEN EvalErr(pop_operand(P), 0, TopOperand(P), 0, 0)
  ELSE CommaMulti(pop_operand(pop_operand(P)), TopOperand(pop_operand(P)),
                  TopOperand(P), fyt_top)

\* lines 2396-2409: the assertion leaf goes to the tail of the chain
FilterAppend(a, b) ==
  EvalOk(push_operand(AddTail(b.P, a.expr, b.expr), a.expr))

FilterLeaf(a, fyt_top) ==
  FilterAppend(a, NewExpr(a.P, fy_map_token_to_path_expr_type(fyt_top.type),
                          fyt_top))

\* lines 2385-2394: a new chain, to which the operand is not added, or the
\* operand when it is a chain
EvalFilter(P, fyt_top) ==
  IF P.operands = <<>> THEN EvalErr(P, 0, 0, 0, 0)
  ELSE IF P.exprs[TopOperand(P)].type # "chain"
       THEN FilterLeaf(NewExpr(pop_operand(P), "chain", NoToken), fyt_top)
  ELSE FilterLeaf([P |-> pop_operand(P), expr |-> TopOperand(P)], fyt_top)

EvalSwitch(P, fyt_top) ==
  CASE fyt_top.type = "PE_SLASH" -> EvalSlash(P, fyt_top)
    [] fyt_top.type = "PE_SIBLING" -> EvalSibling(P, fyt_top)
    [] fyt_top.type = "PE_COMMA" -> EvalComma(P, fyt_top)
    [] IsFilterToken(fyt_top.type) -> EvalFilter(P, fyt_top)
    [] OTHER -> EvalAbort(P)

evaluate(P) ==
  IF P.operators = <<>> THEN EvalErr(P, 0, 0, 0, 0)
  ELSE EvalSwitch(pop_operator(P), peek_operator(P))

(***************************************************************************)
(* fy_path_parse_expression, one pass of one of its loops at a time.       *)
(*   pc = "start"     entry, up to the removal of the stream start         *)
(*   pc = "loop"      the head of the token loop (line 2453)               *)
(*   pc = "operator"  the head of the operator loop (line 2477); the       *)
(*                    operator token is at the head of the queue           *)
(*   pc = "drain"     the head of the loop that empties the operator       *)
(*                    stack (line 2500)                                    *)
(*   pc = "done"      returned; result is the expression, 0 for NULL       *)
(*   pc = "abort"     an assertion failed                                  *)
(***************************************************************************)
fy_path_parser_setup(input, valgrind, int_overflow) ==
  [ input |-> input, pos |-> 1, queued_tokens |-> <<>>,
    int_overflow |-> int_overflow,
    stream_start_produced |-> FALSE, stream_end_produced |-> FALSE,
    stream_error |-> FALSE, token_activity_counter |-> 0,
    suppress_recycling |-> valgrind,
    operators |-> <<>>, operands |-> <<>>,
    exprs |-> <<>>, expr_recycle |-> <<>>,
    pc |-> "start", result |-> 0 ]

\* the label err_out of fy_path_parse_expression
ParseErr(P) == [P EXCEPT !.stream_error = TRUE, !.pc = "done", !.result = 0]

\* after ret = evaluate(fypp)
AfterEvaluate(r) ==
  IF r.P.pc = "abort" THEN r.P
  ELSE IF r.ret # 0 THEN ParseErr(r.P)
  ELSE r.P

\* lines 2444-2451: the stream start is expected and removed
StartPeeked(pk) ==
  IF pk.P.pc = "abort" THEN pk.P
  ELSE IF pk.fyt # NoToken /\ pk.fyt.type = "STREAM_START"
  THEN [fy_path_scan_remove(pk.P) EXCEPT !.pc = "loop"]
  ELSE ParseErr(pk.P)

\* lines 2461-2471: the operand token becomes an expression on the stack
ParseOperand(P, fyt) ==
  PushExpr(SetExpr(fy_path_expr_alloc_recycle(fy_path_scan_remove(P)),
                        fy_map_token_to_path_expr_type(fyt.type), fyt))

\* lines 2453-2474 and 2496-2498
LoopPeeked(pk) ==
  IF pk.P.pc = "abort" THEN pk.P
  ELSE IF pk.fyt = NoToken THEN ParseErr(pk.P)
  ELSE IF pk.fyt.type = "STREAM_END" THEN [pk.P EXCEPT !.pc = "drain"]
  ELSE IF fy_token_type_is_operand(pk.fyt.type) THEN ParseOperand(pk.P, pk.fyt)
  ELSE [pk.P EXCEPT !.pc = "operator"]

\* line 2481 with an operator of equal precedence pushed as well
OperatorPushes_equal(fyt, fyt_top) ==
  \/ fyt_top = NoToken
  \/ fy_token_type_operator_prec(fyt.type)
       >= fy_token_type_operator_prec(fyt_top.type)

\* line 2481: the new operator is pushed when the stack is empty or its
\* precedence is larger than that of the top
OperatorPushes(fyt, fyt_top) ==
  \/ fyt_top = NoToken
  \/ fy_token_type_operator_prec(fyt.type)
       > fy_token_type_operator_prec(fyt_top.type)

\* lines 2477-2493: one pass of the operator loop
OperatorPass(P) ==
  IF OperatorPushes(Head(P.queued_tokens), peek_operator(P))
  THEN [push_operator(fy_path_scan_remove(P), Head(P.queued_tokens))
          EXCEPT !.pc = "loop"]
  ELSE AfterEvaluate(evaluate(P))

\* lines 2500-2516 with the top operand returned whatever lies below it
DrainPass_top(P) ==
  IF peek_operator(P) # NoToken THEN AfterEvaluate(evaluate(P))
  ELSE IF P.operands = <<>> THEN ParseErr(P)
  ELSE [pop_operand(fy_path_scan_remove(P))
          EXCEPT !.pc = "done", !.result = TopOperand(P)]

\* lines 2500-2516: one pass of the drain loop, or the return
DrainPass(P) ==
  IF peek_operator(P) # NoToken THEN AfterEvaluate(evaluate(P))
  ELSE IF Len(P.operands) # 1 THEN ParseErr(P)
  ELSE [pop_operand(fy_path_scan_remove(P))
          EXCEPT !.pc = "done", !.result = TopOperand(P)]

\* the step of fy_path_parse_expression from where it stands
ParseStep(P) ==
  CASE P.pc = "start" ->
         IF P.operators # <<>> \/ P.operands # <<>>
         THEN [P EXCEPT !.pc = "done", !.result = 0]
         ELSE StartPeeked(fy_path_scan_peek(P))
    [] P.pc = "loop" -> LoopPeeked(fy_path_scan_peek(P))
    [] P.pc = "operator" -> OperatorPass(P)
    [] P.pc = "drain" -> DrainPass(P)
    [] OTHER -> P

\* the whole call
RECURSIVE fy_path_parse_expression(_)
fy_path_parse_expression(P) ==
  IF P.pc \in {"done", "abort"} THEN P
  ELSE fy_path_parse_expression(ParseStep(P))

\* the tree below an expression, without the identity of its nodes
RECURSIVE ExprTree(_, _)
ExprTree(P, expr) ==
  IF expr = 0 THEN <<>>
  ELSE <<P.exprs[expr].type, P.exprs[expr].fyt,
         [i \in 1..Len(P.exprs[expr].children) |->
            ExprTree(P, P.exprs[expr].children[i])]>>

(***************************************************************************)
(* The inputs.                                                             *)
(***************************************************************************)
\* the lexical pieces paths are assembled from
Pieces ==
  { <<"/">>, <<",">>, <<":">>, <<"$">>, <<"*">>, <<"*", "*">>, <<".", ".">>,
    <<"^">>, <<"a">>, <<"b">>, <<"0">>, <<"1">>, <<"2">>, <<"5">>,
    <<"*", "a", "n", "c">> }

RECURSIVE PiecePaths(_)
PiecePaths(k) ==
  IF k = 0 THEN {<<>>}
  ELSE LET shorter == PiecePaths(k - 1)
       IN shorter \cup {q \o pc : q \in shorter, pc \in Pieces}

\* the scenario expressions, and expressions with a terminating component
\* that is followed by further components
CorpusPaths ==
  { <<"/", "a", "/", "b">>,
    <<"/", "a", "/", "*">>,
    <<"/", "l", "i", "s", "t", "/", "1">>,
    <<"/", "l", "i", "s", "t", "/", "1", ":", "3">>,
    <<"/", "a", ",", "l", "i", "s", "t">>,
    <<"/", "*", "*", "$">>,
    <<"*", "a", "n", "c", "/", "x">>,
    <<"/", "a", "/", ":", "b">>,
    <<"*", "*">>,
    <<"*", "*", "$">>,
    <<"*", "*", "/", "a">>,
    <<"*", "*", "$", "/", "a">>,
    <<"a", "$", "/", "b">>,
    <<"*", "*", ",", "a", "/", "b">>,
    <<"*", ",", "a", "/", "b">>,
    <<" ">>,
    <<" ", "\t">>,
    <<" ", "a", "/", "b", " ">> }

Paths == PiecePaths(MaxPieces) \cup CorpusPaths

\* the lexical pieces the parsed expressions are assembled from
ParsePieces ==
  { <<"/">>, <<",">>, <<":">>, <<"$">>, <<"[", "]">>, <<"*">>, <<".", ".">>,
    <<"^">>, <<"a">>, <<"b">>, <<"0">>, <<"1">>, <<"3">>, <<"-">> }

RECURSIVE ParsePiecePaths(_)
ParsePiecePaths(k) ==
  IF k = 0 THEN {<<>>}
  ELSE LET shorter == ParsePiecePaths(k - 1)
       IN shorter \cup {q \o pc : q \in shorter, pc \in ParsePieces}

\* longer expressions, and the tokens that no piece gives
ParseCorpus ==
  { <<"/", "a", "/", ":", "b">>,
    <<"/", "a", "/", "b", "/", "1">>,
    <<"a", "/", ":", "b", "/", "1">>,
    <<"a", ",", ":", "b", ",", "1">>,
    <<"a", ",", "b", "/", "1", ",", "3">>,
    <<"a", "/", "b", ",", "1", "/", "3">>,
    <<"/", "a", "/", "*", "*", "$">>,
    <<"a", "$", "/", "b">>,
    <<"a", "/", "b", "%">>,
    <<"a", "{", "}">>,
    <<"1", ":", "-", "3">>,
    <<"-", "1", ":", "3">>,
    <<"1", ":", "3", ":", "1">>,
    <<"1", "3", ":", "3", "1">>,
    <<"*", "a", "b", "/", ".">>,
    <<"\"", "a", " ", "b", "\"", "/", "b">>,
    <<"{", "a", ":", "b", "}", ",", "a">>,
    <<"'", "a">>,
    <<"a", "/", "?">>,
    <<":", "b", "/", "a">>,
    <<"a", ",", ":", "b", "/">>,
    <<"5", "0", "0", "0", "0", "0", "0", "0", "0", "0">>,
    <<"3", "0", "0", "0", "0", "0", "0", "0", "0", "0">>,
    <<"2", "1", "4", "7", "4", "8", "3", "6", "4", "8">>,
    <<"a", "/", "-", "4", "2", "9", "4", "9", "6", "7", "2", "9", "7">> }

ParsePaths == ParsePiecePaths(MaxParsePieces) \cup ParseCorpus

\* the expressions walked into result lists that a caller has filled by hand
AddPaths ==
  { <<"*", "*">>, <<"*", "*", "$">>, <<"/", "a", "/", "*">>,
    <<"/", "a", ",", "l", "i", "s", "t">> }

\* the nodes a caller adds to a result list by hand, alone or with their
\* subtree: a root mapping, a nested mapping, one of its scalars, and the
\* root sequence and a scalar of the other document
HandNodes == {1, 2, 3, 12, 14}

\* the allocation failures of one call: none, or exactly one allocation
FailSets == {{}} \cup {{k} : k \in 1..MaxFailAt}

(***************************************************************************)
(* The state machine.  A caller holds a path, the context created from it  *)
(* and one result list.                                                    *)
(*   path      the path string handed to fy_walk_create                    *)
(*   wc        the context, NullCtx before creation; after a failure it is  *)
(*             not valid and tells what fy_walk_destroy was given          *)
(*   results   the caller's result list (node per entry, in list order)    *)
(*   prev      the result list before the last operation                   *)
(*   op        the last operation                                          *)
(*   start     the node argument of the last operation                     *)
(*   leaf      the leaf_only argument of the last add_recursive            *)
(*   ret       the return value of the last operation                      *)
(*   failed    whether an allocation failed during the last operation      *)
(*   performed whether the list was walked into since it was last emptied  *)
(*   fypp      the path parser, which parses the same path                 *)
(*   scanned   the tokens fy_path_scan handed out, NoToken for NULL        *)
(***************************************************************************)
InitWith(ps) ==
  /\ path \in ps
  /\ wc = NullCtx
  /\ results = <<>>
  /\ prev = <<>>
  /\ op = "init"
  /\ start = 0
  /\ leaf = FALSE
  /\ ret = 0
  /\ failed = FALSE
  /\ performed = FALSE
  /\ fypp = fy_path_parser_setup(<<>>, FALSE, "wrap")
  /\ scanned = <<>>

Init == InitWith(Paths)

InitAdd == InitWith(AddPaths)

Create ==
  /\ op = "init"
  /\ wc' \in fy_walk_destroy(fy_walk_create(path))
  /\ op' = "create"
  /\ UNCHANGED <<path, results, prev, start, leaf, ret, failed, performed, fypp, scanned>>

Perform ==
  /\ wc.valid
  /\ ~performed
  /\ \E fyn \in Nodes, fail \in FailSets :
       LET r == fy_walk_perform(wc, results, fyn, Allocator(fail))
       IN /\ results' = r.results
          /\ prev' = results
          /\ op' = "perform"
          /\ start' = fyn
          /\ leaf' = FALSE
          /\ ret' = r.ret
          /\ failed' = r.A.failed
          /\ performed' = TRUE
  /\ UNCHANGED <<path, wc, fypp, scanned>>

ResultAdd ==
  /\ op # "init"
  /\ Len(results) < MaxAdds
  /\ \E fyn \in HandNodes, fail \in FailSets :
       LET r == fy_walk_result_add(results, fyn, Allocator(fail))
       IN /\ results' = r.results
          /\ prev' = results
          /\ op' = "add"
          /\ start' = fyn
          /\ leaf' = FALSE
          /\ ret' = r.ret
          /\ failed' = r.A.failed
  /\ UNCHANGED <<path, wc, performed, fypp, scanned>>

ResultAddRecursive ==
  /\ op # "init"
  /\ Len(results) < MaxAdds
  /\ \E fyn \in HandNodes, leaf_only \in BOOLEAN, fail \in FailSets :
       LET r == fy_walk_result_add_recursive(results, fyn, leaf_only, Allocator(fail))
       IN /\ results' = r.results
          /\ prev' = results
          /\ op' = "add_recursive"
          /\ start' = fyn
          /\ leaf' = leaf_only
          /\ ret' = r.ret
          /\ failed' = r.A.failed
  /\ UNCHANGED <<path, wc, performed, fypp, scanned>>

ResultListFree ==
  /\ op \in {"perform", "add", "add_recursive"}
  /\ results' = <<>>
  /\ prev' = results
  /\ op' = "free"
  /\ start' = 0
  /\ leaf' = FALSE
  /\ ret' = 0
  /\ failed' = FALSE
  /\ performed' = FALSE
  /\ UNCHANGED <<path, wc, fypp, scanned>>

Next == Create \/ Perform \/ ResultListFree

Spec == Init /\ [][Next]_vars

InitParse ==
  /\ path \in ParsePaths
  /\ wc = NullCtx
  /\ results = <<>>
  /\ prev = <<>>
  /\ op = "init"
  /\ start = 0
  /\ leaf = FALSE
  /\ ret = 0
  /\ failed = FALSE
  /\ performed = FALSE
  /\ \E valgrind \in BOOLEAN, int_overflow \in {"wrap", "trap"} :
       fypp = fy_path_parser_setup(path, valgrind, int_overflow)
  /\ scanned = <<>>

ParseStart ==
  /\ fypp.pc = "start"
  /\ fypp' = ParseStep(fypp)
  /\ UNCHANGED <<path, wc, results, prev, op, start, leaf, ret, failed, performed, scanned>>

ParseLoop ==
  /\ fypp.pc = "loop"
  /\ fypp' = ParseStep(fypp)
  /\ UNCHANGED <<path, wc, results, prev, op, start, leaf, ret, failed, performed, scanned>>

ParseOperator ==
  /\ fypp.pc = "operator"
  /\ fypp' = ParseStep(fypp)
  /\ UNCHANGED <<path, wc, results, prev, op, start, leaf, ret, failed, performed, scanned>>

ParseDrain ==
  /\ fypp.pc = "drain"
  /\ fypp' = ParseStep(fypp)
  /\ UNCHANGED <<path, wc, results, prev, op, start, leaf, ret, failed, performed, scanned>>

NextParse == ParseStart \/ ParseLoop \/ ParseOperator \/ ParseDrain

SpecParse == InitParse /\ [][NextParse]_vars

\* fy_path_parse_expression is called again on the parser it returned from
ParseAgain ==
  /\ fypp.pc = "done"
  /\ fypp' = [fypp EXCEPT !.pc = "start", !.result = 0]
  /\ op' = "parse_expression"
  /\ UNCHANGED <<path, wc, results, prev, start, leaf, ret, failed, performed, scanned>>

NextReparse == ParseStart \/ ParseLoop \/ ParseOperator \/ ParseDrain \/ ParseAgain

SpecReparse == InitParse /\ [][NextReparse]_vars

\* a parser set up for a caller of the scanner alone, which allocates no
\* expression: recycling plays no part
InitScan ==
  /\ path \in ParsePaths
  /\ wc = NullCtx
  /\ results = <<>>
  /\ prev = <<>>
  /\ op = "init"
  /\ start = 0
  /\ leaf = FALSE
  /\ ret = 0
  /\ failed = FALSE
  /\ performed = FALSE
  /\ \E int_overflow \in {"wrap", "trap"} :
       fypp = fy_path_parser_setup(path, FALSE, int_overflow)
  /\ scanned = <<>>

\* a caller of the scanner alone: it looks at the next token, or takes it
ScanPeek ==
  /\ fypp.pc # "abort"
  /\ fy_path_scan_peek(fypp).P # fypp
  /\ fypp' = fy_path_scan_peek(fypp).P
  /\ UNCHANGED <<path, wc, results, prev, op, start, leaf, ret, failed, performed, scanned>>

Scan ==
  /\ fypp.pc # "abort"
  /\ Len(scanned) < MaxScans
  /\ fypp' = fy_path_scan(fypp).P
  /\ scanned' = IF fy_path_scan(fypp).P.pc = "abort" THEN scanned
                 ELSE Append(scanned, fy_path_scan(fypp).fyt)
  /\ UNCHANGED <<path, wc, results, prev, op, start, leaf, ret, failed, performed>>

NextScan == ScanPeek \/ Scan

SpecScan == InitScan /\ [][NextScan]_vars

NextAdd == Create \/ Perform \/ ResultAdd \/ ResultAddRecursive \/ ResultListFree

SpecAdd == InitAdd /\ [][NextAdd]_vars

(***************************************************************************)
(* What the claims expect, computed from the document alone.               *)
(***************************************************************************)
RECURSIVE IsInSubtree(_, _)
IsInSubtree(n, m) ==
  m = n \/ (NodeTable[m].parent # 0 /\ IsInSubtree(n, NodeTable[m].parent))

\* the elements of a set of nodes in ascending order, which is pre-order
RECURSIVE InOrder(_)
InOrder(S) ==
  IF S = {} THEN <<>>
  ELSE LET m == CHOOSE x \in S : \A y \in S : x <= y
       IN <<m>> \o InOrder(S \ {m})

Subtree(n) == {m \in Nodes : IsInSubtree(n, m)}

Leaves(n) == {m \in Subtree(n) : NodeTable[m].kind = "scalar"}

ExpectedRecursive(n, leaf_only) ==
  InOrder(IF leaf_only THEN Leaves(n) ELSE Subtree(n))

\* the elements of a slice start..end of node n, end = -1 for an open slice
ExpectedSlice(n, s, e) ==
  LET L  == Len(NodeTable[n].items)
      hi == IF e = 0 - 1 THEN L ELSE Min(e, L)
  IN IF NodeTable[n].kind # "sequence" \/ s >= L \/ s >= hi THEN <<>>
     ELSE [k \in 1..(hi - s) |-> NodeTable[n].items[s + k]]

FirstType == wc.comps[wc.components[1]].type

PathIs(p) == path = p

(***************************************************************************)
(* C1: a result list never holds the same node twice; an add appends the   *)
(* node at the tail only if no entry refers to it, and no add or walk      *)
(* reorders or removes the entries that were there before.                 *)
(***************************************************************************)
C1_NoDuplicates ==
  /\ NoDup(results)
  /\ op \in {"add", "add_recursive", "perform"} => IsPrefix(prev, results)
  /\ op = "add" =>
       results = IF start \in Range(prev) \/ ret # 0 THEN prev
                 ELSE Append(prev, start)

\* a node already in the list was added again
C1_Witness ==
  /\ op = "add"
  /\ start \in Range(prev)
  /\ ret = 0
  /\ results = prev

(***************************************************************************)
(* C4: an expression whose first component is the root gives the same      *)
(* result list from any two start nodes of one document.                   *)
(***************************************************************************)
C4_RootAbsorption ==
  (op = "perform" /\ ~failed /\ prev = <<>> /\ FirstType \in {"start_root", "root"})
    => \A n2 \in Nodes :
         NodeTable[n2].doc = NodeTable[start].doc
           => fy_walk_perform(wc, <<>>, n2, Allocator({})).results = results

\* a rooted expression walked from a node that is not the root found nodes
C4_Witness ==
  /\ op = "perform"
  /\ ~failed
  /\ FirstType \in {"start_root", "root"}
  /\ NodeTable[start].parent # 0
  /\ Len(results) >= 2

(***************************************************************************)
(* C5: a slice on a sequence of length L yields the elements s..L-1 when   *)
(* open-ended and s..min(e,L)-1 otherwise, in index order, and nothing     *)
(* when s >= L or the node is not a sequence.                              *)
(***************************************************************************)
C5_SliceBounds ==
  (op = "perform" /\ ~failed /\ prev = <<>> /\ Len(wc.components) = 1
     /\ FirstType = "seq_slice")
    => results = ExpectedSlice(start, wc.comps[wc.components[1]].start_index,
                               wc.comps[wc.components[1]].end_index)

\* a slice whose end lies beyond the sequence selected its last two elements
C5_Witness ==
  /\ op = "perform"
  /\ ~failed
  /\ Len(wc.components) = 1
  /\ FirstType = "seq_slice"
  /\ wc.comps[wc.components[1]].end_index > fy_node_sequence_item_count(start)
  /\ Len(results) = 2

(***************************************************************************)
(* C7: fy_walk_result_add_recursive adds the whole subtree in pre-order,   *)
(* or only its scalars when leaf_only; the path ** selects the subtree of  *)
(* the start node and **$ its scalar leaves.                               *)
(***************************************************************************)
C7_AddRecursive ==
  /\ (op = "add_recursive" /\ ~failed)
       => /\ ret = 0
          /\ results = prev \o SelectSeq(ExpectedRecursive(start, leaf),
                                         LAMBDA n : n \notin Range(prev))
  /\ (op = "perform" /\ ~failed /\ prev = <<>> /\ PathIs(<<"*", "*">>))
       => results = ExpectedRecursive(start, FALSE)
  /\ (op = "perform" /\ ~failed /\ prev = <<>> /\ PathIs(<<"*", "*", "$">>))
       => results = ExpectedRecursive(start, TRUE)

\* the leaves of a mapping with nested collections were added
C7_Witness ==
  /\ op = "add_recursive"
  /\ leaf
  /\ ~failed
  /\ start = 1
  /\ prev # <<>>
  /\ Len(results) > Len(prev) + 2

(***************************************************************************)
(* C8: absence of a match is not an error: unless an allocation fails,     *)
(* fy_walk_perform returns 0.                                              *)
(***************************************************************************)
C8_NoMatchNoError ==
  (op = "perform" /\ ~failed) => ret = 0

\* a key was looked up on a scalar and nothing was selected
C8_Witness ==
  /\ op = "perform"
  /\ ~failed
  /\ FirstType = "simple_map_key"
  /\ fy_node_is_scalar(start)
  /\ results = <<>>
  /\ ret = 0

(***************************************************************************)
(* The evaluation the specification defines: evaluate(c, n) as a set, and  *)
(* the pipeline S0 = S, Si = union over n in S(i-1) of evaluate(ci, n).    *)
(***************************************************************************)
RECURSIVE SpecEvaluate(_, _, _)
RECURSIVE SpecPipeline(_, _, _)

SpecEvaluate(W, fwc, n) ==
  LET c  == W.comps[fwc]
      nd == NodeTable[n]
      L  == Len(nd.items)
      hi == IF c.end_index = 0 - 1 THEN L ELSE Min(c.end_index, L)
  IN CASE c.type \in {"start_root", "root"} -> {DocRoot[nd.doc]}
       [] c.type = "this" -> {n}
       [] c.type = "parent" -> {nd.parent} \ {0}
       [] c.type = "start_alias" ->
            {fy_document_lookup_anchor(nd.doc, Tail(c.comp))} \ {0}
       [] c.type = "simple_map_key" ->
            IF nd.kind = "mapping"
            THEN {fy_node_mapping_lookup_value_by_simple_key(n, c.comp)} \ {0}
            ELSE {}
       [] c.type = "map_key" ->
            IF nd.kind = "mapping"
            THEN {fy_node_mapping_lookup_value_by_key(n, c.comp)} \ {0}
            ELSE {}
       [] c.type = "seq_index" ->
            IF nd.kind = "sequence"
            THEN {fy_node_sequence_get_by_index(n, c.index)} \ {0}
            ELSE {}
       [] c.type = "seq_slice" ->
            IF nd.kind = "sequence"
            THEN {nd.items[i + 1] : i \in c.start_index..(hi - 1)}
            ELSE {}
       [] c.type = "assert_scalar" -> IF nd.kind = "scalar" THEN {n} ELSE {}
       [] c.type = "assert_sequence" -> IF nd.kind = "sequence" THEN {n} ELSE {}
       [] c.type = "assert_mapping" -> IF nd.kind = "mapping" THEN {n} ELSE {}
       [] c.type = "assert_collection" -> IF nd.kind # "scalar" THEN {n} ELSE {}
       [] c.type = "every_child" ->
            IF nd.kind = "scalar" THEN {n} ELSE Range(nd.items)
       [] c.type = "every_child_r" -> Subtree(n)
       [] c.type = "every_leaf" -> Leaves(n)
       [] c.type = "chain" -> SpecPipeline(W, c.children, {n})
       [] c.type = "multi" ->
            UNION {SpecEvaluate(W, c.children[i], n) : i \in 1..Len(c.children)}

SpecPipeline(W, list, S) ==
  IF list = <<>> THEN S
  ELSE SpecPipeline(W, Tail(list),
                    UNION {SpecEvaluate(W, Head(list), n) : n \in S})

\* a walk without allocation failure from an empty result list
WalkFrom(W, n) == fy_walk_perform(W, <<>>, n, Allocator({})).results

\* component fwc walked on its own, and the components after the first
BranchAlone(W, fwc) ==
  [W EXCEPT !.comps = [@ EXCEPT ![fwc].parent = 0], !.components = <<fwc>>]

Remainder(W) == [W EXCEPT !.components = Tail(@)]

ContinueFrom(W, n) ==
  IF Len(W.components) = 1 THEN {n} ELSE Range(WalkFrom(Remainder(W), n))

(***************************************************************************)
(* C2: the result of a walk is the pipeline of the specification, for      *)
(* every component kind at every position.                                 *)
(***************************************************************************)
C2_Pipeline ==
  (op = "perform" /\ ~failed /\ prev = <<>>)
    => Range(results) = SpecPipeline(wc, wc.components, {start})

(***************************************************************************)
(* C3: a multi yields the union of what its branches yield, and when       *)
(* further components follow, the nodes of each branch continue through    *)
(* them.                                                                   *)
(***************************************************************************)
C3_MultiUnion ==
  (op = "perform" /\ ~failed /\ prev = <<>> /\ FirstType = "multi")
    => LET m  == wc.components[1]
           ch == wc.comps[m].children
           selected == UNION {Range(WalkFrom(BranchAlone(wc, ch[i]), start)) :
                                i \in 1..Len(ch)}
       IN Range(results) = UNION {ContinueFrom(wc, n) : n \in selected}

(***************************************************************************)
(* C6: every-child selects the node itself when it is a scalar, and else   *)
(* exactly its immediate children.                                         *)
(***************************************************************************)
C6_EveryChild ==
  (op = "perform" /\ ~failed /\ prev = <<>> /\ Len(wc.components) = 1
     /\ FirstType = "every_child")
    => Range(results) = IF fy_node_is_scalar(start) THEN {start}
                        ELSE Range(NodeTable[start].items)

(***************************************************************************)
(* C9: when fy_walk_perform returns an error, the caller's result list     *)
(* holds no node added by that call.                                       *)
(***************************************************************************)
C9_ErrorDiscards ==
  (op = "perform" /\ ret # 0) => results = prev

\* a top-level segment that is, or ends in, a terminating component
RECURSIVE IsTerminatingSegment(_, _)
IsTerminatingSegment(W, fwc) ==
  LET c == W.comps[fwc]
  IN \/ fy_walk_component_type_is_terminating(c.type)
     \/ /\ c.type = "chain"
        /\ c.children # <<>>
        /\ IsTerminatingSegment(W, c.children[Len(c.children)])

(***************************************************************************)
(* C10: in a parsed expression a terminating component (every-child-       *)
(* recursive, every-leaf, an assert), alone or closing the chain of its    *)
(* segment, is followed by no further component.                           *)
(***************************************************************************)
C10_TerminatingLast ==
  wc.valid => \A i \in 1..(Len(wc.components) - 1) :
                ~IsTerminatingSegment(wc, wc.components[i])

\* every Chain or Multi at or below expr has a child and no child of its
\* own type
RECURSIVE Flattened(_, _)
Flattened(P, expr) ==
  /\ P.exprs[expr].type \in {"chain", "multi"}
       => /\ P.exprs[expr].children # <<>>
          /\ \A i \in 1..Len(P.exprs[expr].children) :
               P.exprs[P.exprs[expr].children[i]].type # P.exprs[expr].type
  /\ \A i \in 1..Len(P.exprs[expr].children) :
       Flattened(P, P.exprs[expr].children[i])

(***************************************************************************)
(* C11: every expression on the operand stack, and the expression that     *)
(* fy_path_parse_expression returns, is flattened: each Chain has at least *)
(* one child and no Chain child, each Multi at least one child and no      *)
(* Multi child.                                                            *)
(***************************************************************************)
C11_Flattened ==
  /\ \A i \in 1..Len(fypp.operands) : Flattened(fypp, fypp.operands[i])
  /\ fypp.result # 0 => Flattened(fypp, fypp.result)

\* a chain was spliced into the chain that is returned
C11_Witness ==
  /\ fypp.pc = "done"
  /\ fypp.result # 0
  /\ fypp.exprs[fypp.result].type = "chain"
  /\ Len(fypp.exprs[fypp.result].children) = 4
  /\ \E i \in 1..4 :
       fypp.exprs[fypp.exprs[fypp.result].children[i]].type = "parent"

\* the tokens the parser holds: queued, on the operator stack, or in an
\* expression
ParserTokens(P) ==
  Range(P.queued_tokens) \cup Range(P.operators)
    \cup {P.exprs[e].fyt : e \in 1..Len(P.exprs)}

(***************************************************************************)
(* C12: every sequence slice the tokenizer produces has a start index >= 0 *)
(* and an end index >= 0 with start < end; a slice literal with a negative *)
(* endpoint or with start >= end produces no slice.                        *)
(***************************************************************************)
C12_SliceBounds ==
  \A t \in ParserTokens(fypp) :
    t.type = "PE_SEQ_SLICE" => t.a >= 0 /\ t.b >= 0 /\ t.a < t.b

\* the next pass evaluates the top operator
Evaluates(P) ==
  \/ P.pc = "operator" /\ ~OperatorPushes(Head(P.queued_tokens), peek_operator(P))
  \/ P.pc = "drain" /\ P.operators # <<>>

\* the operator about to be evaluated lacks an operand it requires
MissingOperand(P) ==
  /\ Evaluates(P)
  /\ \/ peek_operator(P).type = "PE_COMMA" /\ Len(P.operands) < 2
     \/ peek_operator(P).type = "PE_SIBLING" /\ P.operands = <<>>
     \/ IsFilterToken(peek_operator(P).type) /\ P.operands = <<>>

\* the operators are drained and the operand stack does not hold exactly one
\* expression
BadFinalStack(P) ==
  P.pc = "drain" /\ P.operators = <<>> /\ Len(P.operands) # 1

(***************************************************************************)
(* C13: when an evaluated Comma, Sibling or filter operator finds a        *)
(* required operand missing, or when the operand stack does not hold       *)
(* exactly one expression after the operators are drained,                 *)
(* fy_path_parse_expression returns no expression and sets stream_error;   *)
(* an expression is never returned together with stream_error.             *)
(***************************************************************************)
C13_IllFormedRejected ==
  [][/\ (MissingOperand(fypp) \/ BadFinalStack(fypp))
          => (fypp'.pc = "done" /\ fypp'.result = 0 /\ fypp'.stream_error)
     /\ fypp'.result # 0 => ~fypp'.stream_error /\ fypp'.pc = "done"]_vars

\* two adjacent operands were rejected at the end of the stream
C13_Witness ==
  /\ fypp.pc = "done"
  /\ fypp.result = 0
  /\ fypp.stream_error
  /\ fypp.operators = <<>>
  /\ Len(fypp.operands) = 2
  /\ fypp.stream_end_produced

(***************************************************************************)
(* C14: on the document {a: {b: 1, c: 2}, list: [...], d: &anc {x: 9}}     *)
(* the expression /a/:b walked from the node /a/b yields no node (after    *)
(* /a the walk stands on /a, whose parent, the root, has no key b); the    *)
(* relative expression :b walked from /a/b yields exactly the node /a/b.   *)
(***************************************************************************)
C14_SiblingOfStart ==
  (op = "perform" /\ ~failed /\ start = 3)
    => /\ PathIs(<<"/", "a", "/", ":", "b">>) => results = <<>>
       /\ PathIs(<<":", "b">>) => results = <<3>>

\* :b was walked from /a/b and found /a/b
C14_Witness ==
  /\ op = "perform"
  /\ ~failed
  /\ start = 3
  /\ PathIs(<<":", "b">>)
  /\ results = <<3>>

\* C14 as the scenario states it: /a/:b walked from /a/b yields exactly the
\* node /a/b
C14_Scenario ==
  (op = "perform" /\ ~failed /\ start = 3
     /\ PathIs(<<"/", "a", "/", ":", "b">>))
    => results = <<3>>

\* two finished parses have the same outcome: the same return or failure and
\* structurally equal expression trees
SameOutcome(P, Q) ==
  /\ P.pc = Q.pc
  /\ P.stream_error = Q.stream_error
  /\ (P.result = 0) = (Q.result = 0)
  /\ ExprTree(P, P.result) = ExprTree(Q, Q.result)

(***************************************************************************)
(* C15: parsing with the recycling pool gives the same outcome as parsing  *)
(* with recycling suppressed (a structurally equal tree, or the same       *)
(* failure), and a node in the pool holds no children and no token.        *)
(***************************************************************************)
C15_RecyclingTransparent ==
  /\ \A i \in 1..Len(fypp.expr_recycle) :
       /\ fypp.exprs[fypp.expr_recycle[i]].children = <<>>
       /\ fypp.exprs[fypp.expr_recycle[i]].fyt = NoToken
  /\ fypp.pc \in {"done", "abort"}
       => SameOutcome(fypp,
            fy_path_parse_expression(
              fy_path_parser_setup(path, ~fypp.suppress_recycling,
                                    fypp.int_overflow)))

\* a recycled node was taken from the pool and is part of the returned tree
C15_Witness ==
  /\ fypp.pc = "done"
  /\ fypp.result # 0
  /\ ~fypp.suppress_recycling
  /\ fypp.expr_recycle = <<>>
  /\ Len(fypp.exprs) < Len(fy_path_parse_expression(
                             fy_path_parser_setup(path, TRUE, fypp.int_overflow)).exprs)

(***************************************************************************)
(* C16: fy_path_parse_expression runs to completion on every finite input: *)
(* a call that has not returned has a next step, it never stops short of   *)
(* its return.                                                             *)
(***************************************************************************)
C16_ParseCompletes ==
  fypp.pc # "done" => ParseStep(fypp) # fypp

\* the pass of the operator loop from P to Q evaluated the top operator
TopEvaluated(P, Q) ==
  /\ Q.operators = SubSeq(P.operators, 1, Len(P.operators) - 1)
  /\ Q.queued_tokens = P.queued_tokens

\* the pass of the operator loop from P to Q pushed the incoming operator
IncomingPushed(P, Q) ==
  /\ Q.operators = Append(P.operators, Head(P.queued_tokens))
  /\ Q.queued_tokens = Tail(P.queued_tokens)
  /\ Q.pc = "loop"

(***************************************************************************)
(* C17: when the parser meets an operator op, it evaluates the operator on *)
(* top of the operator stack while that top has a precedence higher than   *)
(* or equal to that of op, and then pushes op: op is pushed only on an     *)
(* empty stack or above a top of strictly lower precedence.                *)
(***************************************************************************)
C17_EqualEvaluated ==
  [][fypp.pc = "operator" =>
       IF /\ fypp.operators # <<>>
          /\ fy_token_type_operator_prec(peek_operator(fypp).type)
               >= fy_token_type_operator_prec(Head(fypp.queued_tokens).type)
       THEN TopEvaluated(fypp, fypp')
       ELSE IncomingPushed(fypp, fypp')]_vars

\* a slash met a slash on top of the stack, which was evaluated into the
\* chain of the root and its operand
C17_Witness ==
  /\ fypp.pc = "operator"
  /\ fypp.operators = <<>>
  /\ Head(fypp.queued_tokens).type = "PE_SLASH"
  /\ Len(fypp.operands) = 1
  /\ fypp.exprs[fypp.operands[1]].type = "chain"
  /\ Len(fypp.exprs[fypp.operands[1]].children) = 2
  /\ fypp.exprs[fypp.exprs[fypp.operands[1]].children[1]].type = "root"
  /\ fypp.exprs[fypp.exprs[fypp.operands[1]].children[2]].type = "map_key"

\* C17 as stated: the top is evaluated only while its precedence is strictly
\* higher than that of op; a top of equal precedence stays and op is pushed
\* above it
C17_StrictlyHigher ==
  [][fypp.pc = "operator" =>
       IF /\ fypp.operators # <<>>
          /\ fy_token_type_operator_prec(peek_operator(fypp).type)
               > fy_token_type_operator_prec(Head(fypp.queued_tokens).type)
       THEN TopEvaluated(fypp, fypp')
       ELSE IncomingPushed(fypp, fypp')]_vars

\* the trees an operand contributes to a chain: its children when it is a
\* chain, itself otherwise
ChainItems(P, expr) ==
  IF P.exprs[expr].type = "chain" THEN ExprTree(P, expr)[3]
  ELSE <<ExprTree(P, expr)>>

\* the positions in the source text of the tokens at or below expr
RECURSIVE SourcePositions(_, _)
SourcePositions(P, expr) ==
  (IF P.exprs[expr].fyt = NoToken THEN {} ELSE {P.exprs[expr].fyt.pos})
    \cup UNION {SourcePositions(P, P.exprs[expr].children[i]) :
                  i \in 1..Len(P.exprs[expr].children)}

\* the slash token starts before the operand in the source text
SlashBefore(P, fyt, expr) == \A p \in SourcePositions(P, expr) : fyt.pos < p

\* the children of the chain that the Slash on top of the operator stack is
\* to produce from the operand stack
SlashExpected(P) ==
  IF Len(P.operands) = 1
  THEN IF SlashBefore(P, peek_operator(P), P.operands[1])
       THEN <<<<"root", peek_operator(P), <<>>>>>> \o ChainItems(P, P.operands[1])
       ELSE ChainItems(P, P.operands[1])
              \o <<<<"assert_collection", peek_operator(P), <<>>>>>>
  ELSE ChainItems(P, P.operands[Len(P.operands) - 1])
         \o ChainItems(P, P.operands[Len(P.operands)])

\* the operands of the Slash were replaced by a chain with these children
SlashResult(P, Q, items) ==
  /\ Q.pc = P.pc
  /\ Len(Q.operands) = (IF Len(P.operands) = 1 THEN 1 ELSE Len(P.operands) - 1)
  /\ SubSeq(Q.operands, 1, Len(Q.operands) - 1)
       = SubSeq(P.operands, 1, Len(Q.operands) - 1)
  /\ Q.exprs[TopOperand(Q)].type = "chain"
  /\ ExprTree(Q, TopOperand(Q))[3] = items

(***************************************************************************)
(* C18: evaluating a Slash with one operand on the stack yields            *)
(* Chain[Root, operand...] if the slash token starts before the operand in *)
(* the source text and Chain[operand..., AssertCollection] otherwise; with *)
(* two operands it yields the chain of lhs followed by rhs; an operand     *)
(* that is a chain contributes its children.                               *)
(***************************************************************************)
C18_SlashEvaluation ==
  [][(/\ Evaluates(fypp)
      /\ peek_operator(fypp).type = "PE_SLASH"
      /\ fypp.operands # <<>>)
       => SlashResult(fypp, fypp', SlashExpected(fypp))]_vars

\* the component that follows fwc among the children of its parent, 0 when
\* there is none
NextSibling(W, fwc) ==
  LET cs == W.comps[W.comps[fwc].parent].children
      i  == CHOOSE k \in 1..Len(cs) : cs[k] = fwc
  IN IF i < Len(cs) THEN cs[i + 1] ELSE 0

(***************************************************************************)
(* C19: a sibling mark (:) is accepted only on a map key: in a created     *)
(* context the Parent that a sibling mark adds is followed by a map key    *)
(* component, and a path with a sibling mark on an index, a slice or any   *)
(* other component creates no context.                                     *)
(***************************************************************************)
C19_SiblingOnKeyOnly ==
  wc.valid =>
    \A fwc \in 1..Len(wc.comps) :
      (wc.comps[fwc].type = "parent" /\ wc.comps[fwc].comp = <<>>)
        => /\ NextSibling(wc, fwc) # 0
           /\ wc.comps[NextSibling(wc, fwc)].type \in {"simple_map_key", "map_key"}

(***************************************************************************)
(* C20: evaluating a filter suffix ($, %, [], {}) on the operand X yields  *)
(* a chain that holds X followed by the matching assert leaf: the children *)
(* of X and the leaf when X is a chain, Chain[X, Assert] otherwise; X is   *)
(* never dropped.                                                          *)
(***************************************************************************)
C20_FilterKeepsOperand ==
  [][(/\ Evaluates(fypp)
      /\ IsFilterToken(peek_operator(fypp).type)
      /\ fypp.operands # <<>>)
       => /\ fypp'.pc = fypp.pc
          /\ Len(fypp'.operands) = Len(fypp.operands)
          /\ fypp'.exprs[TopOperand(fypp')].type = "chain"
          /\ ExprTree(fypp', TopOperand(fypp'))[3]
               = ChainItems(fypp, TopOperand(fypp))
                   \o <<<<fy_map_token_to_path_expr_type(peek_operator(fypp).type),
                          peek_operator(fypp), <<>>>>>>]_vars


\* the tokens handed out after the first STREAM_END
AfterStreamEnd ==
  {j \in 1..Len(scanned) :
     \E i \in 1..(j - 1) : scanned[i].type = "STREAM_END"}

(***************************************************************************)
(* C21: the token stream handed out by the scanner starts with exactly one *)
(* StreamStart, and once the input is exhausted (a StreamEnd was handed    *)
(* out) every further request for a token yields a StreamEnd token.        *)
(***************************************************************************)
C21_StreamEndRepeats ==
  /\ scanned # <<>> => scanned[1].type = "STREAM_START"
  /\ \A j \in 2..Len(scanned) : scanned[j].type # "STREAM_START"
  /\ \A j \in AfterStreamEnd : scanned[j].type = "STREAM_END"

\* the part of C21 about the start of the stream
C21_OneStreamStart ==
  /\ scanned # <<>> => scanned[1].type = "STREAM_START"
  /\ \A j \in 2..Len(scanned) : scanned[j].type # "STREAM_START"


\* the fixed forms of the tokenizer's table and their tokens
TokenForms ==
  { [form |-> <<"/">>, type |-> "PE_SLASH"],
    [form |-> <<"^">>, type |-> "PE_ROOT"],
    [form |-> <<":">>, type |-> "PE_SIBLING"],
    [form |-> <<"$">>, type |-> "PE_SCALAR_FILTER"],
    [form |-> <<"%">>, type |-> "PE_COLLECTION_FILTER"],
    [form |-> <<"[", "]">>, type |-> "PE_SEQ_FILTER"],
    [form |-> <<"{", "}">>, type |-> "PE_MAP_FILTER"],
    [form |-> <<",">>, type |-> "PE_COMMA"],
    [form |-> <<".", ".">>, type |-> "PE_PARENT"],
    [form |-> <<".">>, type |-> "PE_THIS"],
    [form |-> <<"*", "*">>, type |-> "PE_EVERY_CHILD_R"],
    [form |-> <<"*">>, type |-> "PE_EVERY_CHILD"] }

CharAt(p, s) == IF s >= 1 /\ s <= Len(p) THEN p[s] ELSE "EOF"

\* the forms that the text of p at s starts with
FormsAt(p, s) ==
  {f \in TokenForms : \A k \in 1..Len(f.form) : CharAt(p, s + k - 1) = f.form[k]}

LongestForm(p, s) ==
  CHOOSE f \in FormsAt(p, s) : \A g \in FormsAt(p, s) : Len(g.form) <= Len(f.form)

\* the number of alphanumerics of p from s on
RECURSIVE AlnumRun(_, _)
AlnumRun(p, s) == IF fy_is_alnum(CharAt(p, s)) THEN 1 + AlnumRun(p, s + 1) ELSE 0

\* type and length of the token of a fixed form that starts at s
FormToken(p, s) ==
  IF LongestForm(p, s).type = "PE_EVERY_CHILD" /\ fy_is_first_alpha(CharAt(p, s + 1))
  THEN <<"PE_ALIAS", 1 + AlnumRun(p, s + 1)>>
  ELSE <<LongestForm(p, s).type, Len(LongestForm(p, s).form)>>

\* a character of p at s that no rule of the table matches
NoRule(p, s) ==
  /\ s <= Len(p)
  /\ FormsAt(p, s) = {}
  /\ ~fy_is_first_alpha(p[s])
  /\ p[s] \notin {"\"", "'", "{", "["}
  /\ ~fy_is_num(p[s])
  /\ ~(p[s] = "-" /\ fy_is_num(CharAt(p, s + 1)))

IsPathToken(t) == t.type \notin {"NONE", "STREAM_START", "STREAM_END"}

NotAnInt == 0 - 1

RECURSIVE DecimalFrom(_, _, _)
DecimalFrom(p, s, acc) ==
  IF ~isdigit(CharAt(p, s)) THEN acc
  ELSE IF acc = NotAnInt THEN NotAnInt
  ELSE IF acc > 214748364 \/ (acc = 214748364 /\ DigitVal(p[s]) > 7)
       THEN DecimalFrom(p, s + 1, NotAnInt)
  ELSE DecimalFrom(p, s + 1, acc * 10 + DigitVal(p[s]))

\* the end of the literal of p at s: an optional sign, then digits
RECURSIVE DigitsEnd(_, _)
DigitsEnd(p, s) == IF isdigit(CharAt(p, s)) THEN DigitsEnd(p, s + 1) ELSE s

SignedStart(p, s) == IF CharAt(p, s) = "-" THEN s + 1 ELSE s

\* the literal of p at s fits an int; its value
LiteralFits(p, s) == DecimalFrom(p, SignedStart(p, s), 0) # NotAnInt

LiteralValue(p, s) ==
  IF CharAt(p, s) = "-" THEN 0 - DecimalFrom(p, s + 1, 0)
  ELSE DecimalFrom(p, s, 0)

\* where the second literal of the slice at s starts
SecondLiteral(p, s) == DigitsEnd(p, SignedStart(p, s)) + 1

(***************************************************************************)
(* C23: for every numeric literal accepted by the tokenizer, the integer   *)
(* stored in the SeqIndex or SeqSlice token equals the decimal value of    *)
(* its digit string (negated after a -), for all literals within int       *)
(* range.                                                                  *)
(***************************************************************************)
C23_DecimalValue ==
  \A i \in 1..Len(scanned) :
    /\ scanned[i].type \in {"PE_SEQ_INDEX", "PE_SEQ_SLICE"}
       /\ LiteralFits(path, scanned[i].pos)
       => scanned[i].a = LiteralValue(path, scanned[i].pos)
    /\ scanned[i].type = "PE_SEQ_SLICE"
       /\ LiteralFits(path, SecondLiteral(path, scanned[i].pos))
       => scanned[i].b = LiteralValue(path, SecondLiteral(path, scanned[i].pos))


\* a numeric literal starts at s in p
LiteralAt(p, s) ==
  isdigit(CharAt(p, s)) \/ (CharAt(p, s) = "-" /\ isdigit(CharAt(p, s + 1)))

(***************************************************************************)
(* C24: a numeric literal whose decimal value does not fit a signed 32-bit *)
(* int is rejected with an error: no index or slice token is handed out    *)
(* for such a literal, and the request that meets it yields no token.      *)
(***************************************************************************)
C24_OverflowRejected ==
  /\ \A i \in 1..Len(scanned) :
       /\ scanned[i].type \in {"PE_SEQ_INDEX", "PE_SEQ_SLICE"}
          => LiteralFits(path, scanned[i].pos)
       /\ scanned[i].type = "PE_SEQ_SLICE"
          => LiteralFits(path, SecondLiteral(path, scanned[i].pos))
  /\ \A i \in 1..(Len(scanned) - 1) :
       /\ scanned[i].type \notin {"NONE", "STREAM_END"}
       /\ LiteralAt(path, scanned[i].pos + scanned[i].len)
       /\ ~LiteralFits(path, scanned[i].pos + scanned[i].len)
       => scanned[i + 1] = NoToken /\ fypp.stream_error


(***************************************************************************)
(* C25: allocation failure is always surfaced: when adding a node to a     *)
(* result list, the caller's or an intermediate one, failed for lack of    *)
(* memory during an evaluation, fy_walk_perform returns a nonzero code.    *)
(***************************************************************************)
C25_FailureSurfaced ==
  (op = "perform" /\ failed) => ret # 0


(***************************************************************************)
(* C26: whenever evaluate handles a Slash with exactly one operand on the  *)
(* stack, the slash token and that operand have a known start position:    *)
(* the assertions on m1 and m2 hold, the program does not stop there.      *)
(***************************************************************************)
C26_SlashMarksKnown ==
  [][(/\ Evaluates(fypp)
      /\ peek_operator(fypp).type = "PE_SLASH"
      /\ Len(fypp.operands) = 1)
     => fypp'.pc # "abort"]_vars


\* the places that hold the expression node e: slots of the operand stack,
\* child slots of nodes, slots of the recycle pool, and the caller who was
\* returned e
ExprOwners(P, e) ==
  Cardinality({i \in 1..Len(P.operands) : P.operands[i] = e})
  + Cardinality({ni \in (1..Len(P.exprs)) \X (1..Len(P.exprs)) :
                   /\ ni[2] <= Len(P.exprs[ni[1]].children)
                   /\ P.exprs[ni[1]].children[ni[2]] = e})
  + Cardinality({i \in 1..Len(P.expr_recycle) : P.expr_recycle[i] = e})
  + (IF P.pc = "done" /\ P.result = e THEN 1 ELSE 0)

(***************************************************************************)
(* C27: expression nodes have exactly one owner at all times during a      *)
(* parse: every node that was allocated is exactly once on the operand     *)
(* stack, a child of a node, in the recycle pool or returned, unless it    *)
(* was freed, and a freed node is held nowhere; none is lost.              *)
(***************************************************************************)
C27_SingleOwner ==
  fypp.pc # "abort" =>
    \A e \in 1..Len(fypp.exprs) :
      ExprOwners(fypp, e) = IF fypp.exprs[e].type = "freed" THEN 0 ELSE 1


StacksEmpty(P) == P.operators = <<>> /\ P.operands = <<>>

\* the call returned at once: no expression, nothing consumed or changed
ReturnedAtOnce(P, Q) == Q = [P EXCEPT !.pc = "done", !.result = 0]

MaxAlternatives(W) ==
  LET widths == {Len(W.comps[i].children) :
                   i \in {j \in 1..Len(W.comps) : W.comps[j].type = "multi"}}
  IN IF widths = {} THEN 1 ELSE CHOOSE n \in widths : \A m \in widths : m <= n

(***************************************************************************)
(* C29: in fy_walk_create the split array, sized as the number of commas   *)
(* of the whole path plus one, is never overrun: the assertion             *)
(* split < splitse holds on every iteration, and no path segment has more  *)
(* alternatives than that size.                                            *)
(***************************************************************************)
C29_SplitsFit ==
  op # "init" =>
    /\ wc.destroyed # "uninitialized" => ~wc.aborted
    /\ wc.valid => MaxAlternatives(wc) <= split_alloc(wc.path)

\* a segment filled the array to its last element
C29_Witness ==
  /\ op = "create"
  /\ wc.valid
  /\ split_alloc(wc.path) = 2
  /\ MaxAlternatives(wc) = 2


(***************************************************************************)
(* C30: fy_walk_create rejects a path that is empty or consists only of    *)
(* whitespace by returning no context, and on that path as on every other  *)
(* failure path fy_walk_destroy is only ever given a context whose         *)
(* component list and path fields have been initialized (or NULL).         *)
(***************************************************************************)
C30_DestroyInitialized ==
  op # "init" =>
    /\ StripTrailing(StripLeading(path)) = <<>> => ~wc.valid /\ ~wc.aborted
    /\ wc.destroyed \in {"none", "NULL", "initialized"}

\* the part of C30 about the value returned when the program goes on
C30_Rejected ==
  (op # "init" /\ StripTrailing(StripLeading(path)) = <<>>) => ~wc.valid

====
